---- MODULE Spec2Model ----
(***************************************************************************)
(* Credit-card billing-cycle engine of the FinControl backend:             *)
(* statement period, merge of persisted transactions with projected        *)
(* recurring charges, statement status and invoice payment                 *)
(* (backend/main.py), over the tables of backend/models.py.                *)
(*                                                                         *)
(* Representation.  A datetime.date is a record [year, month, day].  A     *)
(* "YYYY-MM-DD" string (the way the tables store dates) is the number      *)
(* year*10000 + month*100 + day: the digits of the string, so that the     *)
(* order of the numbers is the lexicographic order of the strings.         *)
(* Amounts are integers (the float arithmetic of the code is not           *)
(* modelled).  A uuid is a positive number, None is 0.  The wall clock is  *)
(* today, the date, and clock, the time of that day; an isoformat()        *)
(* timestamp is the pair <<date string, clock>>.                           *)
(***************************************************************************)
EXTENDS Integers, Sequences, FiniteSets, TLC

VARIABLES today, clock, cards, transactions, rules, sessions, resp

vars == <<today, clock, cards, transactions, rules, sessions, resp>>

None == 0

\* ------------------------------------------------------------- calendar

IsLeap(year) ==
    (year % 4 = 0) /\ ((year % 100 # 0) \/ (year % 400 = 0))

\* calendar.monthrange(year, month)[1]
monthrange(year, month) ==
    IF month = 2 THEN (IF IsLeap(year) THEN 29 ELSE 28)
    ELSE IF month \in {4, 6, 9, 11} THEN 30
    ELSE 31

\* datetime.date(year, month, day) raises ValueError unless this holds
ValidDate(year, month, day) ==
    /\ month \in 1..12
    /\ day >= 1
    /\ day <= monthrange(year, month)

Date(year, month, day) == [year |-> year, month |-> month, day |-> day]

\* d.strftime("%Y-%m-%d")
strftime(d) == d.year * 10000 + d.month * 100 + d.day

\* datetime.datetime.strptime(s, "%Y-%m-%d").date()
strptime(s) == Date(s \div 10000, (s \div 100) % 100, s % 100)

\* datetime.date.__lt__ / __le__: compares (year, month, day)
DateLT(a, b) ==
    \/ a.year < b.year
    \/ a.year = b.year /\ a.month < b.month
    \/ a.year = b.year /\ a.month = b.month /\ a.day < b.day

DateLE(a, b) == a = b \/ DateLT(a, b)

\* the day a month does not have carried over to the first of the month after
get_date_safe_nextmonth(year, month, day) ==
    IF ValidDate(year, month, day)
    THEN Date(year, month, day)
    ELSE IF month = 12 THEN Date(year + 1, 1, 1) ELSE Date(year, month + 1, 1)

\* get_date_safe(year, month, day)
get_date_safe(year, month, day) ==
    IF ValidDate(year, month, day)
    THEN Date(year, month, day)
    ELSE Date(year, month, monthrange(year, month))

\* datetime.datetime.now().isoformat()
isoformat_now == <<strftime(today), clock>>

YearMonth(year, month) == [year |-> year, month |-> month]

\* the month before, with the year of January's December left as it is
MinusOneMonth_sameyear(ym) ==
    IF ym.month = 1 THEN YearMonth(ym.year, 12)
    ELSE YearMonth(ym.year, ym.month - 1)

\* target_date - relativedelta(months=1), of which only year and month are read
MinusOneMonth(ym) ==
    IF ym.month = 1 THEN YearMonth(ym.year - 1, 12)
    ELSE YearMonth(ym.year, ym.month - 1)

\* the period of the wrong month: [closing of M, closing of M+1)
PeriodOf_shifted(closing_day, ym) ==
    LET nxt == IF ym.month = 12 THEN YearMonth(ym.year + 1, 1)
               ELSE YearMonth(ym.year, ym.month + 1)
    IN [start_date |-> get_date_safe(ym.year, ym.month, closing_day),
        end_date   |-> get_date_safe(nxt.year, nxt.month, closing_day)]

\* start_date, end_date of the statement of month ym
PeriodOf(closing_day, ym) ==
    LET prev_month_date == MinusOneMonth(ym)
    IN [start_date |-> get_date_safe(prev_month_date.year, prev_month_date.month, closing_day),
        end_date   |-> get_date_safe(ym.year, ym.month, closing_day)]

\* ------------------------------------------------------------- tables

\* id=str(uuid.uuid4()) of a new transaction: the n-th uuid handed out
NewTransactionId(n) == <<"uuid", n>>

\* the insertion that puts an item before the items of its date
RECURSIVE InsertByDateDesc_unstable(_, _)
InsertByDateDesc_unstable(sorted, x) ==
    IF sorted = <<>> THEN <<x>>
    ELSE IF Head(sorted).date > x.date
         THEN <<Head(sorted)>> \o InsertByDateDesc_unstable(Tail(sorted), x)
         ELSE <<x>> \o sorted

\* list.sort(key=date, reverse=True) / ORDER BY date DESC: stable, newest first
RECURSIVE InsertByDateDesc(_, _)
InsertByDateDesc(sorted, x) ==
    IF sorted = <<>> THEN <<x>>
    ELSE IF Head(sorted).date >= x.date
         THEN <<Head(sorted)>> \o InsertByDateDesc(Tail(sorted), x)
         ELSE <<x>> \o sorted

RECURSIVE SortByDateDesc(_)
SortByDateDesc(items) ==
    IF items = <<>> THEN <<>>
    ELSE InsertByDateDesc(SortByDateDesc(SubSeq(items, 1, Len(items) - 1)),
                          items[Len(items)])

\* the card looked up by its id alone, whoever owns it
FindCard_anyuser(card_id, user_id) ==
    SelectSeq(cards, LAMBDA c : c.id = card_id)

\* db.query(models.CreditCard).filter(id == card_id, user_id == current_user.id).first()
FindCard(card_id, user_id) ==
    SelectSeq(cards, LAMBDA c : c.id = card_id /\ c.user_id = user_id)

\* the period filter without the owner: any user's transactions of the card
TransactionFilter_anyuser(t, user_id, card_id, start_date_str, end_date_str) ==
    /\ t.credit_card_id = card_id
    /\ t.date >= start_date_str
    /\ t.date < end_date_str

\* the filter of the transaction queries of the three handlers
TransactionFilter(t, user_id, card_id, start_date_str, end_date_str) ==
    /\ t.user_id = user_id
    /\ t.credit_card_id = card_id
    /\ t.date >= start_date_str
    /\ t.date < end_date_str

\* db.query(models.Transaction).filter(...).order_by(date.desc()).all()
QueryTransactions(user_id, card_id, start_date_str, end_date_str) ==
    SortByDateDesc(SelectSeq(transactions,
        LAMBDA t : TransactionFilter(t, user_id, card_id, start_date_str, end_date_str)))

\* the rule filter without the active flag
RuleFilter_inactive(r, user_id, card_id) ==
    /\ r.user_id = user_id
    /\ r.credit_card_id = card_id

\* the filter of the rule query: the caller's active rules of the card
RuleFilter(r, user_id, card_id) ==
    /\ r.user_id = user_id
    /\ r.credit_card_id = card_id
    /\ r.active = TRUE

\* db.query(models.RecurringRule).filter(user_id, credit_card_id, active == True).all()
QueryRules(user_id, card_id) ==
    SelectSeq(rules, LAMBDA r : RuleFilter(r, user_id, card_id))

\* ------------------------------------------------------------- statement

\* re.search(r"BYMONTHDAY=(\d+)", rule.rrule): the rrule column is modelled by
\* the number it yields, None when the pattern does not match
HasByMonthDay(rule) == rule.bymonthday # None

\* the candidates of end_date's month alone
Candidates_endmonth(rule, start_date, end_date) ==
    IF ValidDate(end_date.year, end_date.month, rule.bymonthday)
    THEN <<Date(end_date.year, end_date.month, rule.bymonthday)>>
    ELSE <<>>

\* candidates: the rule's day in start_date's month and, if it is another
\* month, in end_date's month; a day the month does not have is dropped
Candidates(rule, start_date, end_date) ==
    LET day == rule.bymonthday
        month1 == IF ValidDate(start_date.year, start_date.month, day)
                  THEN <<Date(start_date.year, start_date.month, day)>>
                  ELSE <<>>
        month2 == IF end_date.month # start_date.month \/ end_date.year # start_date.year
                  THEN IF ValidDate(end_date.year, end_date.month, day)
                       THEN <<Date(end_date.year, end_date.month, day)>>
                       ELSE <<>>
                  ELSE <<>>
    IN month1 \o month2

\* the bounds check with the end date included
InBounds_closed(d, start_date, end_date) ==
    DateLE(start_date, d) /\ DateLE(d, end_date)

\* start_date <= d < end_date
InBounds(d, start_date, end_date) ==
    DateLE(start_date, d) /\ DateLT(d, end_date)

\* the end-date check left out
AfterRuleEnd_never(rule, d) == FALSE

\* rule.end_date and d > rule_end
AfterRuleEnd(rule, d) ==
    /\ rule.end_date # None
    /\ DateLT(strptime(rule.end_date), d)

\* the fuzzy duplication check: an item of the rule on any date, or an item of
\* the rule's amount on the date
AlreadyExists_fuzzy(statement_items, rule, d) ==
    \E i \in DOMAIN statement_items :
        \/ statement_items[i].recurring_rule_id = rule.id
        \/ /\ statement_items[i].amount = rule.amount
           /\ statement_items[i].date = strftime(d)

\* the duplication check left out
AlreadyExists_never(statement_items, rule, d) == FALSE

\* already_exists: an item (a transaction or an earlier virtual one) with this
\* rule id and this date
AlreadyExists(statement_items, rule, d) ==
    \E i \in DOMAIN statement_items :
        /\ statement_items[i].recurring_rule_id = rule.id
        /\ statement_items[i].date = strftime(d)

\* virtual_t
VirtualItem(rule, d, card_id) ==
    [id                |-> <<"virtual", rule.id, strftime(d)>>,
     credit_card_id    |-> card_id,
     recurring_rule_id |-> rule.id,
     amount            |-> rule.amount,
     date              |-> strftime(d),
     status            |-> "PENDING",
     created_at        |-> isoformat_now]

\* the item appended without its amount being added to the total
AddVirtual_nototal(acc, rule, d, card_id) ==
    [statement_items |-> Append(acc.statement_items, VirtualItem(rule, d, card_id)),
     total_invoice   |-> acc.total_invoice]

\* statement_items.append(virtual_t); total_invoice += rule.amount
AddVirtual(acc, rule, d, card_id) ==
    [statement_items |-> Append(acc.statement_items, VirtualItem(rule, d, card_id)),
     total_invoice   |-> acc.total_invoice + rule.amount]

\* for d in candidates: ...
RECURSIVE ForCandidates(_, _, _, _, _, _)
ForCandidates(acc, rule, candidates, start_date, end_date, card_id) ==
    IF candidates = <<>> THEN acc
    ELSE LET d == Head(candidates)
             next == IF \/ ~InBounds(d, start_date, end_date)
                        \/ AfterRuleEnd(rule, d)
                        \/ AlreadyExists(acc.statement_items, rule, d)
                     THEN acc
                     ELSE AddVirtual(acc, rule, d, card_id)
         IN ForCandidates(next, rule, Tail(candidates), start_date, end_date, card_id)

\* for rule in rules: ...
RECURSIVE ForRules(_, _, _, _, _)
ForRules(acc, rs, start_date, end_date, card_id) ==
    IF rs = <<>> THEN acc
    ELSE LET rule == Head(rs)
             next == IF HasByMonthDay(rule)
                     THEN ForCandidates(acc, rule, Candidates(rule, start_date, end_date),
                                        start_date, end_date, card_id)
                     ELSE acc
         IN ForRules(next, Tail(rs), start_date, end_date, card_id)

\* for t in transactions: total_invoice += t.amount
RECURSIVE SumAmounts(_)
SumAmounts(items) ==
    IF items = <<>> THEN 0 ELSE Head(items).amount + SumAmounts(Tail(items))

\* the normalized dict of a persisted transaction
NormalizedItem(t) ==
    [id                |-> t.id,
     credit_card_id    |-> t.credit_card_id,
     recurring_rule_id |-> t.recurring_rule_id,
     amount            |-> t.amount,
     date              |-> t.date,
     status            |-> t.status,
     created_at        |-> t.created_at]

\* the status that is OVERDUE only while a transaction is still PENDING
StatementStatus_unpaid(now, end_date, due_date) ==
    IF DateLE(end_date, now)
    THEN (IF /\ DateLT(due_date, now)
             /\ \E i \in DOMAIN transactions : transactions[i].status = "PENDING"
          THEN "OVERDUE" ELSE "CLOSED")
    ELSE "OPEN"

\* the status that closes the day after the closing day
StatementStatus_late(now, end_date, due_date) ==
    IF DateLT(end_date, now)
    THEN (IF DateLT(due_date, now) THEN "OVERDUE" ELSE "CLOSED")
    ELSE "OPEN"

\* status: OPEN, CLOSED once today >= end_date, OVERDUE once also today > due_date
StatementStatus(now, end_date, due_date) ==
    IF DateLE(end_date, now)
    THEN (IF DateLT(due_date, now) THEN "OVERDUE" ELSE "CLOSED")
    ELSE "OPEN"

\* get_credit_card_statement after its checks: body is the 200 response,
\* unsorted is normalized_items as it stands before the sort
StatementResult(user_id, card, ym) ==
    LET period == PeriodOf(card.closing_day, ym)
        start_date == period.start_date
        end_date == period.end_date
        start_date_str == strftime(start_date)
        end_date_str == strftime(end_date)
        txs == QueryTransactions(user_id, card.id, start_date_str, end_date_str)
        real == [statement_items |-> txs, total_invoice |-> SumAmounts(txs)]
        merged == ForRules(real, QueryRules(user_id, card.id), start_date, end_date, card.id)
        normalized_items == [i \in DOMAIN merged.statement_items |->
                                LET item == merged.statement_items[i]
                                IN IF item.id[1] = "virtual" THEN item ELSE NormalizedItem(item)]
        due_date == get_date_safe(ym.year, ym.month, card.due_day)
    IN [body |-> [period       |-> [start |-> start_date_str, end |-> end_date_str],
                  transactions |-> SortByDateDesc(normalized_items),
                  total        |-> merged.total_invoice,
                  status       |-> StatementStatus(today, end_date, due_date),
                  due_date     |-> strftime(due_date)],
        unsorted |-> normalized_items]

\* the body of the 200 response of get_credit_card_statement
StatementBody(user_id, card, ym) == StatementResult(user_id, card, ym).body

\* ------------------------------------------------------------- projection

\* the month i months on, within the same year
PlusMonths_sameyear(ym, i) ==
    YearMonth(ym.year, ((ym.month - 1 + i) % 12) + 1)

\* today + relativedelta(months=i), of which only year and month are read
PlusMonths(ym, i) ==
    LET n == ym.year * 12 + (ym.month - 1) + i
    IN YearMonth(n \div 12, (n % 12) + 1)

\* c1, c2: the rule's day in start_date's month and in end_date's month
ProjectionCandidates(rule, start_date, end_date) ==
    LET day == rule.bymonthday
        c1 == IF ValidDate(start_date.year, start_date.month, day)
              THEN <<Date(start_date.year, start_date.month, day)>> ELSE <<>>
        c2 == IF ValidDate(end_date.year, end_date.month, day)
              THEN <<Date(end_date.year, end_date.month, day)>> ELSE <<>>
    IN c1 \o c2

\* any(t.recurring_rule_id == rule.id and t.date == d.strftime(...) for t in txns)
ProjectionAlreadyExists(txns, rule, d) ==
    \E i \in DOMAIN txns :
        /\ txns[i].recurring_rule_id = rule.id
        /\ txns[i].date = strftime(d)

\* the loop without the added flag: every candidate of the period is added
RECURSIVE ProjectionForCandidates_everydate(_, _, _, _, _, _)
ProjectionForCandidates_everydate(acc, rule, candidates, start_date, end_date, txns) ==
    IF candidates = <<>> THEN acc
    ELSE LET d == Head(candidates)
             next == IF /\ InBounds(d, start_date, end_date)
                        /\ ~AfterRuleEnd(rule, d)
                        /\ ~ProjectionAlreadyExists(txns, rule, d)
                     THEN [month_total |-> acc.month_total + rule.amount, added |-> TRUE]
                     ELSE acc
         IN ProjectionForCandidates_everydate(next, rule, Tail(candidates),
                                              start_date, end_date, txns)

\* for d in candidates: ... with acc = [month_total, added]
RECURSIVE ProjectionForCandidates(_, _, _, _, _, _)
ProjectionForCandidates(acc, rule, candidates, start_date, end_date, txns) ==
    IF candidates = <<>> THEN acc
    ELSE LET d == Head(candidates)
             next == IF /\ InBounds(d, start_date, end_date)
                        /\ ~AfterRuleEnd(rule, d)
                        /\ ~ProjectionAlreadyExists(txns, rule, d)
                        /\ ~acc.added
                     THEN [month_total |-> acc.month_total + rule.amount, added |-> TRUE]
                     ELSE acc
         IN ProjectionForCandidates(next, rule, Tail(candidates), start_date, end_date, txns)

\* for rule in rules: ...
RECURSIVE ProjectionForRules(_, _, _, _, _)
ProjectionForRules(month_total, rs, start_date, end_date, txns) ==
    IF rs = <<>> THEN month_total
    ELSE LET rule == Head(rs)
             next == IF HasByMonthDay(rule)
                     THEN ProjectionForCandidates(
                              [month_total |-> month_total, added |-> FALSE], rule,
                              ProjectionCandidates(rule, start_date, end_date),
                              start_date, end_date, txns).month_total
                     ELSE month_total
         IN ProjectionForRules(next, Tail(rs), start_date, end_date, txns)

\* one entry of projections; start and end are the period the entry was
\* computed over (not part of the response)
ProjectionEntry(user_id, card, i) ==
    LET target_date == PlusMonths(YearMonth(today.year, today.month), i)
        period == PeriodOf(card.closing_day, target_date)
        start_date_str == strftime(period.start_date)
        end_date_str == strftime(period.end_date)
        txns == SelectSeq(transactions,
                    LAMBDA t : TransactionFilter(t, user_id, card.id, start_date_str, end_date_str))
        month_total == ProjectionForRules(SumAmounts(txns), QueryRules(user_id, card.id),
                                          period.start_date, period.end_date, txns)
    IN [month    |-> target_date,
        total    |-> month_total,
        due_date |-> strftime(get_date_safe(target_date.year, target_date.month, card.due_day)),
        start    |-> start_date_str,
        end      |-> end_date_str]

\* for i in range(12)
ProjectionBody(user_id, card) ==
    [k \in 1..12 |-> ProjectionEntry(user_id, card, k - 1)]

\* ------------------------------------------------------------- payment

\* the payment filter without the status: every transaction of the period
PayFilter_all(t, user_id, card_id, start_date_str, end_date_str) ==
    TransactionFilter(t, user_id, card_id, start_date_str, end_date_str)

\* the filter of pay_credit_card_invoice's query
PayFilter(t, user_id, card_id, start_date_str, end_date_str) ==
    /\ TransactionFilter(t, user_id, card_id, start_date_str, end_date_str)
    /\ t.status = "PENDING"

\* the payment that also clears the amount of what it pays
PaidTransactions_settled(user_id, card_id, start_date_str, end_date_str) ==
    [i \in DOMAIN transactions |->
        IF PayFilter(transactions[i], user_id, card_id, start_date_str, end_date_str)
        THEN [transactions[i] EXCEPT !.status = "PAID", !.amount = 0]
        ELSE transactions[i]]

\* for t in transactions: t.status = 'PAID'; db.commit()
PaidTransactions(user_id, card_id, start_date_str, end_date_str) ==
    [i \in DOMAIN transactions |->
        IF PayFilter(transactions[i], user_id, card_id, start_date_str, end_date_str)
        THEN [transactions[i] EXCEPT !.status = "PAID"]
        ELSE transactions[i]]

\* the count of every transaction of the period, paid before or not
PayCount_period(user_id, card_id, start_date_str, end_date_str) ==
    Len(SelectSeq(transactions,
        LAMBDA t : TransactionFilter(t, user_id, card_id, start_date_str, end_date_str)))

\* count
PayCount(user_id, card_id, start_date_str, end_date_str) ==
    Len(SelectSeq(transactions,
        LAMBDA t : PayFilter(t, user_id, card_id, start_date_str, end_date_str)))

\* ------------------------------------------------------------- requests

\* datetime.datetime.strptime(month, "%Y-%m") raises ValueError unless this
\* holds; a month parameter is modelled by the year and month it names
MonthParses(month) == month.month \in 1..12

\* get_credit_card_statement(card_id, month) called by user_id
get_credit_card_statement(user_id, card_id, month) ==
    /\ resp' = LET card == FindCard(card_id, user_id)
               IN IF card = <<>>
                  THEN [op |-> "statement", user_id |-> user_id, card_id |-> card_id,
                        month |-> month, status_code |-> 404]
                  ELSE IF ~MonthParses(month)
                  THEN [op |-> "statement", user_id |-> user_id, card_id |-> card_id,
                        month |-> month, status_code |-> 400]
                  ELSE LET result == StatementResult(user_id, card[1], month)
                       IN [op |-> "statement", user_id |-> user_id, card_id |-> card_id,
                           month |-> month, status_code |-> 200,
                           body |-> result.body, unsorted |-> result.unsorted]
    /\ UNCHANGED <<today, clock, cards, transactions, rules, sessions>>

\* get_credit_card_projection(card_id) called by user_id
get_credit_card_projection(user_id, card_id) ==
    /\ resp' = LET card == FindCard(card_id, user_id)
               IN IF card = <<>>
                  THEN [op |-> "projection", user_id |-> user_id, card_id |-> card_id,
                        status_code |-> 404]
                  ELSE [op |-> "projection", user_id |-> user_id, card_id |-> card_id,
                        status_code |-> 200, body |-> ProjectionBody(user_id, card[1])]
    /\ UNCHANGED <<today, clock, cards, transactions, rules, sessions>>

\* the payment whose db.commit() is left out: the response is that of the
\* payment, the table stays as it was
pay_credit_card_invoice_nocommit(user_id, card_id, month) ==
    LET card == FindCard(card_id, user_id)
        period == PeriodOf(card[1].closing_day, month)
        start_date_str == strftime(period.start_date)
        end_date_str == strftime(period.end_date)
    IN /\ resp' = IF card = <<>>
                  THEN [op |-> "pay_invoice", user_id |-> user_id, card_id |-> card_id,
                        month |-> month, status_code |-> 404]
                  ELSE IF ~MonthParses(month)
                  THEN [op |-> "pay_invoice", user_id |-> user_id, card_id |-> card_id,
                        month |-> month, status_code |-> 400]
                  ELSE [op |-> "pay_invoice", user_id |-> user_id, card_id |-> card_id,
                        month |-> month, status_code |-> 200,
                        body |-> [count |-> PayCount(user_id, card_id, start_date_str, end_date_str)],
                        before |-> transactions,
                        start |-> start_date_str, end |-> end_date_str,
                        repeat |-> FALSE]
       /\ UNCHANGED <<today, clock, cards, transactions, rules, sessions>>

\* pay_credit_card_invoice(card_id, month) called by user_id; before, start and
\* end record the table as the request found it and the period it computed,
\* repeat that the response before this one was that of the same request, served
pay_credit_card_invoice(user_id, card_id, month) ==
    LET card == FindCard(card_id, user_id)
        ok == card # <<>> /\ MonthParses(month)
        period == PeriodOf(card[1].closing_day, month)
        start_date_str == strftime(period.start_date)
        end_date_str == strftime(period.end_date)
    IN /\ resp' = IF card = <<>>
                  THEN [op |-> "pay_invoice", user_id |-> user_id, card_id |-> card_id,
                        month |-> month, status_code |-> 404]
                  ELSE IF ~MonthParses(month)
                  THEN [op |-> "pay_invoice", user_id |-> user_id, card_id |-> card_id,
                        month |-> month, status_code |-> 400]
                  ELSE [op |-> "pay_invoice", user_id |-> user_id, card_id |-> card_id,
                        month |-> month, status_code |-> 200,
                        body |-> [count |-> PayCount(user_id, card_id, start_date_str, end_date_str)],
                        before |-> transactions,
                        start |-> start_date_str, end |-> end_date_str,
                        repeat |-> /\ resp.op = "pay_invoice"
                                   /\ resp.status_code = 200
                                   /\ resp.user_id = user_id
                                   /\ resp.card_id = card_id
                                   /\ resp.month = month]
       /\ transactions' = IF ok
                          THEN PaidTransactions(user_id, card_id, start_date_str, end_date_str)
                          ELSE transactions
       /\ UNCHANGED <<today, clock, cards, rules, sessions>>

\* pay_credit_card_invoice in two steps, for requests served at the same time,
\* each in its own database session (get_db).  A session of sessions is a
\* request between its query and its commit, or after it: the rows its query
\* returned (selected, their positions in the table), and before, the table as
\* the query found it.

\* db.query(models.Transaction).filter(..., status == 'PENDING').all()
SelectPending(user_id, card_id, start_date_str, end_date_str) ==
    {i \in DOMAIN transactions :
        PayFilter(transactions[i], user_id, card_id, start_date_str, end_date_str)}

\* the commit that writes the first of the selected rows alone
CommitPaid_first(selected) ==
    [i \in DOMAIN transactions |->
        IF i \in selected /\ \A j \in selected : i <= j
        THEN [transactions[i] EXCEPT !.status = "PAID"]
        ELSE transactions[i]]

\* for t in transactions: t.status = 'PAID'; db.commit(): an UPDATE of each row
\* the query returned, whatever its status is by now
CommitPaid(selected) ==
    [i \in DOMAIN transactions |->
        IF i \in selected
        THEN [transactions[i] EXCEPT !.status = "PAID"]
        ELSE transactions[i]]

\* the request up to and including its query
pay_invoice_query(user_id, card_id, month) ==
    LET card == FindCard(card_id, user_id)
        period == PeriodOf(card[1].closing_day, month)
        start_date_str == strftime(period.start_date)
        end_date_str == strftime(period.end_date)
    IN IF card = <<>> \/ ~MonthParses(month)
       THEN /\ resp' = [op |-> "pay_invoice", user_id |-> user_id, card_id |-> card_id,
                         month |-> month,
                         status_code |-> IF card = <<>> THEN 404 ELSE 400]
            /\ UNCHANGED <<today, clock, cards, transactions, rules, sessions>>
       ELSE /\ sessions' = Append(sessions,
                                [user_id |-> user_id, card_id |-> card_id, month |-> month,
                                 start |-> start_date_str, end |-> end_date_str,
                                 selected |-> SelectPending(user_id, card_id,
                                                            start_date_str, end_date_str),
                                 before |-> transactions,
                                 pc |-> "queried", count |-> 0])
            /\ UNCHANGED <<today, clock, cards, transactions, rules, resp>>

\* the rest of the request s: the loop, the commit and the response
pay_invoice_commit(s) ==
    /\ sessions[s].pc = "queried"
    /\ transactions' = CommitPaid(sessions[s].selected)
    /\ sessions' = [sessions EXCEPT ![s].pc = "returned",
                                    ![s].count = Cardinality(sessions[s].selected)]
    /\ resp' = [op |-> "pay_invoice", user_id |-> sessions[s].user_id,
                card_id |-> sessions[s].card_id, month |-> sessions[s].month,
                status_code |-> 200,
                body |-> [count |-> Cardinality(sessions[s].selected)],
                before |-> transactions,
                start |-> sessions[s].start, end |-> sessions[s].end,
                repeat |-> FALSE]
    /\ UNCHANGED <<today, clock, cards, rules>>

\* the foreign keys of the transactions and recurring_rules tables
ReferencesHold(row) ==
    /\ row.credit_card_id = None \/ \E i \in DOMAIN cards : cards[i].id = row.credit_card_id
    /\ "recurring_rule_id" \in DOMAIN row =>
          \/ row.recurring_rule_id = None
          \/ \E i \in DOMAIN rules : rules[i].id = row.recurring_rule_id

\* the fields of CreditCardBase that carry days, in their order of declaration:
\* pydantic validates the fields in this order
CreditCardFields == <<"due_day", "closing_day">>

\* info.data of a field's validators: the fields declared before it
info_data(credit_card, field) ==
    LET k == CHOOSE i \in DOMAIN CreditCardFields : CreditCardFields[i] = field
    IN [f \in {CreditCardFields[i] : i \in 1..(k - 1)} |-> credit_card[f]]

\* @field_validator('due_day', 'closing_day') validate_days: TRUE unless it raises
validate_days(v) == 1 <= v /\ v <= 31

\* @field_validator('due_day') validate_due_after_closing: TRUE unless it raises;
\* info.data.get('closing_day') is None when closing_day is not validated yet
validate_due_after_closing(v, data) ==
    LET closing_day == IF "closing_day" \in DOMAIN data THEN data.closing_day ELSE None
    IN ~(closing_day # None /\ v <= closing_day)

\* the request body becomes a schemas.CreditCardCreate: no validator raises
CreditCardCreate(credit_card) ==
    /\ validate_days(credit_card.due_day)
    /\ validate_due_after_closing(credit_card.due_day, info_data(credit_card, "due_day"))
    /\ validate_days(credit_card.closing_day)

\* create_credit_card called by user_id; 422 when the body does not validate
create_credit_card(user_id, credit_card) ==
    /\ cards' = IF CreditCardCreate(credit_card)
                THEN Append(cards, [id          |-> Len(cards) + 1,
                                    user_id     |-> user_id,
                                    closing_day |-> credit_card.closing_day,
                                    due_day     |-> credit_card.due_day])
                ELSE cards
    /\ resp' = [op |-> "create_credit_card", user_id |-> user_id,
                closing_day |-> credit_card.closing_day, due_day |-> credit_card.due_day,
                status_code |-> IF CreditCardCreate(credit_card) THEN 200 ELSE 422]
    /\ UNCHANGED <<today, clock, transactions, rules, sessions>>

\* update_credit_card(card_id) called by user_id: 422 when the body does not
\* validate; crud.update_credit_card returns None for a card that is not the
\* caller's, which the response model refuses
update_credit_card(user_id, card_id, credit_card) ==
    LET found == \E i \in DOMAIN cards : cards[i].id = card_id /\ cards[i].user_id = user_id
        valid == CreditCardCreate(credit_card)
    IN /\ cards' = IF valid
                   THEN [i \in DOMAIN cards |->
                           IF cards[i].id = card_id /\ cards[i].user_id = user_id
                           THEN [cards[i] EXCEPT !.closing_day = credit_card.closing_day,
                                                 !.due_day = credit_card.due_day]
                           ELSE cards[i]]
                   ELSE cards
       /\ resp' = [op |-> "update_credit_card", user_id |-> user_id, card_id |-> card_id,
                   closing_day |-> credit_card.closing_day, due_day |-> credit_card.due_day,
                   status_code |-> IF ~valid THEN 422 ELSE IF found THEN 200 ELSE 500]
       /\ UNCHANGED <<today, clock, transactions, rules, sessions>>

\* create_recurring_rule called by user_id
create_recurring_rule(user_id, rule) ==
    /\ ReferencesHold(rule)
    /\ rules' = Append(rules, [id             |-> Len(rules) + 1,
                               user_id        |-> user_id,
                               credit_card_id |-> rule.credit_card_id,
                               amount         |-> rule.amount,
                               bymonthday     |-> rule.bymonthday,
                               active         |-> rule.active,
                               auto_create    |-> rule.auto_create,
                               last_execution |-> rule.last_execution,
                               next_execution |-> rule.next_execution,
                               end_date       |-> rule.end_date])
    /\ resp' = [op |-> "create_recurring_rule", user_id |-> user_id, status_code |-> 200]
    /\ UNCHANGED <<today, clock, cards, transactions, sessions>>

\* create_transaction called by user_id
create_transaction(user_id, transaction) ==
    /\ ReferencesHold(transaction)
    /\ transactions' = Append(transactions,
                              [id                |-> NewTransactionId(Len(transactions) + 1),
                               user_id           |-> user_id,
                               credit_card_id    |-> transaction.credit_card_id,
                               recurring_rule_id |-> transaction.recurring_rule_id,
                               amount            |-> transaction.amount,
                               date              |-> transaction.date,
                               status            |-> transaction.status,
                               created_at        |-> isoformat_now])
    /\ resp' = [op |-> "create_transaction", user_id |-> user_id, status_code |-> 200]
    /\ UNCHANGED <<today, clock, cards, rules, sessions>>

\* datetime.date.today() a day later
NextDay(d) ==
    IF d.day < monthrange(d.year, d.month) THEN Date(d.year, d.month, d.day + 1)
    ELSE IF d.month < 12 THEN Date(d.year, d.month + 1, 1)
    ELSE Date(d.year + 1, 1, 1)

Tick ==
    /\ today' = NextDay(today)
    /\ resp' = [op |-> "tick", status_code |-> 0]
    /\ UNCHANGED <<clock, cards, transactions, rules, sessions>>

\* datetime.datetime.now() a moment later on the same day; no request is served,
\* the last response stays what it was
ClockTick ==
    /\ clock' = clock + 1
    /\ UNCHANGED <<today, cards, transactions, rules, sessions, resp>>

\* ------------------------------------------------------------- scheduler

\* update_recurring_rule(rule_id) called by user_id: every field of the body is
\* set on the caller's rule, the execution bookkeeping included
update_recurring_rule(user_id, rule_id, rule) ==
    LET found == \E i \in DOMAIN rules : rules[i].id = rule_id /\ rules[i].user_id = user_id
    IN /\ rules' = [i \in DOMAIN rules |->
                      IF rules[i].id = rule_id /\ rules[i].user_id = user_id
                      THEN [id             |-> rules[i].id,
                            user_id        |-> rules[i].user_id,
                            credit_card_id |-> rule.credit_card_id,
                            amount         |-> rule.amount,
                            bymonthday     |-> rule.bymonthday,
                            active         |-> rule.active,
                            auto_create    |-> rule.auto_create,
                            last_execution |-> rule.last_execution,
                            next_execution |-> rule.next_execution,
                            end_date       |-> rule.end_date]
                      ELSE rules[i]]
       /\ resp' = [op |-> "update_recurring_rule", user_id |-> user_id, rule_id |-> rule_id,
                   status_code |-> IF found THEN 200 ELSE 404]
       /\ UNCHANGED <<today, clock, cards, transactions, sessions>>

\* the functions of module crud with one named create_user_transaction among them
crud_complete ==
    {"get_user_by_email", "create_user", "get_categories", "create_category",
     "update_category", "delete_category", "get_transactions", "create_transaction",
     "create_user_transaction",
     "update_transaction", "delete_transaction", "get_recurring_rules",
     "create_recurring_rule", "get_reserves", "create_reserve", "get_credit_cards",
     "create_credit_card", "update_credit_card", "delete_credit_card", "update_reserve",
     "delete_reserve", "create_reserve_history"}

\* the functions module crud defines: an attribute that is not one of them
\* raises AttributeError
crud ==
    {"get_user_by_email", "create_user", "get_categories", "create_category",
     "update_category", "delete_category", "get_transactions", "create_transaction",
     "update_transaction", "delete_transaction", "get_recurring_rules",
     "create_recurring_rule", "get_reserves", "create_reserve", "get_credit_cards",
     "create_credit_card", "update_credit_card", "delete_credit_card", "update_reserve",
     "delete_reserve", "create_reserve_history"}

\* rrulestr(rule.rrule, dtstart).after(dt, inc) of a rule of a day of the month:
\* the first date on the rule's day, in a month that has the day, after d (or on
\* d when inc); ym is the month the search starts in
RECURSIVE rrule_after(_, _, _, _)
rrule_after(day, ym, d, inc) ==
    LET here == Date(ym.year, ym.month, day)
    IN IF /\ ValidDate(ym.year, ym.month, day)
          /\ IF inc THEN DateLE(d, here) ELSE DateLT(d, here)
       THEN here
       ELSE rrule_after(day, PlusMonths(ym, 1), d, inc)

\* the rows of schemas.TransactionCreate(category_id, amount, date, description,
\* status="PENDING") stored for the rule's owner: the fields not passed are None
ScheduledTransaction(db, rule, next_exec_date) ==
    [id                |-> NewTransactionId(Len(db.transactions) + 1),
     user_id           |-> rule.user_id,
     credit_card_id    |-> None,
     recurring_rule_id |-> None,
     amount            |-> rule.amount,
     date              |-> strftime(next_exec_date),
     status            |-> "PENDING",
     created_at        |-> isoformat_now]

\* lines 69-87 when the call returns: the transaction is stored, last_execution is
\* the date executed, next_execution the rule's next date after it
ExecuteRule(db, i, next_exec_date) ==
    LET rule == db.rules[i]
        next_occ == rrule_after(rule.bymonthday,
                                YearMonth(next_exec_date.year, next_exec_date.month),
                                next_exec_date, FALSE)
    IN [rules        |-> [db.rules EXCEPT ![i].last_execution = strftime(next_exec_date),
                                          ![i].next_execution = strftime(next_occ)],
        transactions |-> Append(db.transactions, ScheduledTransaction(db, rule, next_exec_date)),
        log          |-> Append(db.log, [rule_id |-> rule.id, outcome |-> "executed",
                                         date |-> strftime(next_exec_date)])]

\* the body of the loop for the rule at position i of the table; db holds the
\* committed tables and the log of the run. A rule without next_execution gets
\* the next date of its day from now on, committed at once; that date is today
\* only when both calls of datetime.now() return the same whole second
\* (same_instant). A date reached is executed: the call of line 69 raises when
\* crud has no such function, and db.rollback() leaves what was committed
ProcessRule(db, i, same_instant) ==
    LET rule == db.rules[i]
        next_occ == rrule_after(rule.bymonthday, YearMonth(today.year, today.month),
                                today, same_instant)
        next_exec_date == IF rule.next_execution # None
                          THEN strptime(rule.next_execution)
                          ELSE next_occ
        committed == IF rule.next_execution # None
                     THEN db
                     ELSE [db EXCEPT !.rules[i].next_execution = strftime(next_occ)]
    IN IF DateLE(next_exec_date, today)
       THEN IF "create_user_transaction" \in crud
            THEN ExecuteRule(committed, i, next_exec_date)
            ELSE [committed EXCEPT
                    !.log = Append(@, [rule_id |-> rule.id, outcome |-> "error",
                                       date |-> strftime(next_exec_date)])]
       ELSE [committed EXCEPT
               !.log = Append(@, [rule_id |-> rule.id, outcome |-> "waiting",
                                  date |-> strftime(next_exec_date)])]

\* the loop that ends the run at the first rule that raises
RECURSIVE ForScheduledRules_abort(_, _, _)
ForScheduledRules_abort(db, queue, same_instant) ==
    IF queue = <<>> THEN db
    ELSE LET next == ProcessRule(db, Head(queue), same_instant[Head(queue)])
         IN IF next.log[Len(next.log)].outcome = "error" THEN next
            ELSE ForScheduledRules_abort(next, Tail(queue), same_instant)

\* for rule in rules: try ... except Exception: db.rollback()
RECURSIVE ForScheduledRules(_, _, _)
ForScheduledRules(db, queue, same_instant) ==
    IF queue = <<>> THEN db
    ELSE ForScheduledRules(ProcessRule(db, Head(queue), same_instant[Head(queue)]),
                           Tail(queue), same_instant)

\* the positions of the rows of the query: active and auto_create
ScheduledRules ==
    SelectSeq([i \in 1..Len(rules) |-> i],
              LAMBDA i : rules[i].active = TRUE /\ rules[i].auto_create = TRUE)

\* run_scheduler: one run of process_recurring_rules on a session of its own;
\* before and log record the tables the run found and what it did rule by rule
process_recurring_rules(same_instant) ==
    LET result == ForScheduledRules([rules |-> rules, transactions |-> transactions,
                                     log |-> <<>>],
                                    ScheduledRules, same_instant)
    IN /\ rules' = result.rules
       /\ transactions' = result.transactions
       /\ resp' = [op |-> "process_recurring_rules", status_code |-> 0,
                   before |-> [rules |-> rules, transactions |-> transactions],
                   queue |-> ScheduledRules, log |-> result.log]
       /\ UNCHANGED <<today, clock, cards, sessions>>

\* ------------------------------------------------------------- Spec: the store

MaxCards == 2
MaxRules == 1
MaxTransactions == 2

Users == {1, 2}

\* the day of the requests
Today == Date(2024, 3, 9)

\* the month parameter of the requests
Months == {YearMonth(2024, 3)}

\* <<caller, body>> of the POST /credit_cards requests
CardRequests ==
    {<<u, [closing_day |-> 10, due_day |-> 20]>> : u \in Users}

\* <<caller, body>> of the POST /recurring_rules requests: 150 on day 15 charged
\* to card 1, active, inactive, or ended before 15 February
RuleRequests ==
    {<<1, [credit_card_id |-> 1, amount |-> 150, bymonthday |-> 15, active |-> TRUE,
           auto_create |-> FALSE, last_execution |-> None, next_execution |-> None,
           end_date |-> None]>>,
     <<1, [credit_card_id |-> 1, amount |-> 150, bymonthday |-> 15, active |-> FALSE,
           auto_create |-> FALSE, last_execution |-> None, next_execution |-> None,
           end_date |-> None]>>,
     <<1, [credit_card_id |-> 1, amount |-> 150, bymonthday |-> 15, active |-> TRUE,
           auto_create |-> FALSE, last_execution |-> None, next_execution |-> None,
           end_date |-> 20240214]>>}

\* <<caller, body>> of the POST /transactions requests: the occurrence of rule 1
\* on 15 February, a purchase on the first day of the period and one on the
\* closing day, and another user's transaction naming the same card and rule
TransactionRequests ==
    {<<1, [credit_card_id |-> 1, recurring_rule_id |-> 1, amount |-> 150, date |-> 20240215,
           status |-> "PAID"]>>,
     <<1, [credit_card_id |-> 1, recurring_rule_id |-> None, amount |-> 40, date |-> 20240210,
           status |-> "PENDING"]>>,
     <<1, [credit_card_id |-> 1, recurring_rule_id |-> None, amount |-> 40, date |-> 20240310,
           status |-> "PENDING"]>>,
     <<2, [credit_card_id |-> 1, recurring_rule_id |-> 1, amount |-> 150, date |-> 20240215,
           status |-> "PENDING"]>>}

Init ==
    /\ today = Today
    /\ clock = 0
    /\ sessions = <<>>
    /\ cards = <<>>
    /\ transactions = <<>>
    /\ rules = <<>>
    /\ resp = [op |-> "start", status_code |-> 0]

Next ==
    \/ \E c \in CardRequests :
          Len(cards) < MaxCards /\ create_credit_card(c[1], c[2])
    \/ \E r \in RuleRequests :
          Len(rules) < MaxRules /\ create_recurring_rule(r[1], r[2])
    \/ \E t \in TransactionRequests :
          Len(transactions) < MaxTransactions /\ create_transaction(t[1], t[2])
    \/ \E u \in Users, c \in DOMAIN cards, m \in Months : get_credit_card_statement(u, c, m)
    \/ \E u \in Users, c \in DOMAIN cards, m \in Months : pay_credit_card_invoice(u, c, m)

Spec == Init /\ [][Next]_vars

\* ------------------------------------------------------------- SpecPeriod: the period

\* the target months of the statement and payment requests: a common year and
\* a leap year, and the Februaries and Marches of 2000 (leap) and 2100 (common)
CalMonths ==
    {YearMonth(y, m) : y \in {2023, 2024}, m \in 1..12}
        \cup {YearMonth(y, m) : y \in {2000, 2100}, m \in {2, 3}}

\* the day of the projection requests: its twelve months are 2023-12 .. 2024-11
PeriodToday == Date(2023, 12, 31)

\* a PENDING purchase of 40 by user 1 on card 1, dated on closing_day of month ym
PurchaseOnClosingDay(n, closing_day, ym) ==
    [id                |-> NewTransactionId(n),
     user_id           |-> 1,
     credit_card_id    |-> 1,
     recurring_rule_id |-> None,
     amount            |-> 40,
     date              |-> strftime(get_date_safe(ym.year, ym.month, closing_day)),
     status            |-> "PENDING",
     created_at        |-> <<strftime(Date(2023, 12, 1)), 0>>]

\* one card of any closing day, with a purchase on its closing day of February
\* 2024 and one on its closing day of March 2024
InitPeriod ==
    /\ today = PeriodToday
    /\ clock = 0
    /\ sessions = <<>>
    /\ \E closing_day \in 1..31 :
          /\ cards = <<[id |-> 1, user_id |-> 1, closing_day |-> closing_day, due_day |-> 20]>>
          /\ transactions = <<PurchaseOnClosingDay(1, closing_day, YearMonth(2024, 2)),
                              PurchaseOnClosingDay(2, closing_day, YearMonth(2024, 3))>>
    /\ rules = <<>>
    /\ resp = [op |-> "start", status_code |-> 0]

NextPeriod ==
    \/ \E m \in CalMonths : get_credit_card_statement(1, 1, m)
    \/ \E m \in CalMonths : pay_credit_card_invoice(1, 1, m)
    \/ get_credit_card_projection(1, 1)

SpecPeriod == InitPeriod /\ [][NextPeriod]_vars

\* ------------------------------------------------------------- SpecRecur: the occurrences

\* the end_date of the rule that has one
RuleEnd == strftime(Date(2024, 2, 29))

\* the rule of the table: 150 on day n, of user 1; on card 1 and active, or
\* inactive, or ended on RuleEnd, or on card 2
RuleVariants(n) ==
    {[id |-> 1, user_id |-> 1, credit_card_id |-> 1, amount |-> 150, bymonthday |-> n,
      active |-> TRUE, end_date |-> None],
     [id |-> 1, user_id |-> 1, credit_card_id |-> 1, amount |-> 150, bymonthday |-> n,
      active |-> FALSE, end_date |-> None],
     [id |-> 1, user_id |-> 1, credit_card_id |-> 1, amount |-> 150, bymonthday |-> n,
      active |-> TRUE, end_date |-> RuleEnd],
     [id |-> 1, user_id |-> 1, credit_card_id |-> 2, amount |-> 150, bymonthday |-> n,
      active |-> TRUE, end_date |-> None]}

InitRecur ==
    /\ today = Today
    /\ clock = 0
    /\ sessions = <<>>
    /\ \E closing_day \in 1..31 :
          cards = <<[id |-> 1, user_id |-> 1, closing_day |-> closing_day, due_day |-> 20],
                    [id |-> 2, user_id |-> 1, closing_day |-> closing_day, due_day |-> 20]>>
    /\ transactions = <<>>
    /\ \E n \in 1..31 : \E r \in RuleVariants(n) : rules = <<r>>
    /\ resp = [op |-> "start", status_code |-> 0]

\* the target months of the requests: one for each pair of lengths of the
\* previous and the target month (31-28, 28-31, 31-29, 29-31, 31-30, 30-31,
\* 31-31), and January
RecurMonths ==
    {YearMonth(2023, 2), YearMonth(2023, 3), YearMonth(2024, 1), YearMonth(2024, 2),
     YearMonth(2024, 3), YearMonth(2024, 4), YearMonth(2024, 5), YearMonth(2024, 8)}

NextRecur ==
    \E m \in RecurMonths : get_credit_card_statement(1, 1, m)

SpecRecur == InitRecur /\ [][NextRecur]_vars

\* ------------------------------------------------------------- SpecStatus: the clock

StatusFirstDay == Date(2024, 1, 25)
StatusLastDay == Date(2024, 4, 5)

StatusMonths == {YearMonth(2024, 2), YearMonth(2024, 3)}

InitStatus ==
    /\ today = StatusFirstDay
    /\ clock = 0
    /\ sessions = <<>>
    /\ \E closing_day \in 1..31, due_day \in 1..31 :
          cards = <<[id |-> 1, user_id |-> 1, closing_day |-> closing_day, due_day |-> due_day]>>
    /\ transactions = <<>>
    /\ rules = <<>>
    /\ resp = [op |-> "start", status_code |-> 0]

NextStatus ==
    \/ DateLT(today, StatusLastDay) /\ Tick
    \/ \E m \in StatusMonths : get_credit_card_statement(1, 1, m)

SpecStatus == InitStatus /\ [][NextStatus]_vars

\* ------------------------------------------------------------- SpecConcurrent: payments at once

MaxSessions == 2

\* the months of the concurrent payments: 2024-03 is [02-10, 03-10) and 2024-04
\* is [03-10, 04-10) for the card of closing day 10
ConcurrentMonths == {YearMonth(2024, 3), YearMonth(2024, 4)}

\* a purchase of 40 by user 1 on card 1
Purchase(n, date, status) ==
    [id                |-> NewTransactionId(n),
     user_id           |-> 1,
     credit_card_id    |-> 1,
     recurring_rule_id |-> None,
     amount            |-> 40,
     date              |-> date,
     status            |-> status,
     created_at        |-> <<strftime(Date(2024, 2, 1)), 0>>]

\* one card of closing day 10 and three purchases, each PENDING or PAID: two of
\* the period of 2024-03 and one of the closing day
InitConcurrent ==
    /\ today = Today
    /\ clock = 0
    /\ sessions = <<>>
    /\ cards = <<[id |-> 1, user_id |-> 1, closing_day |-> 10, due_day |-> 20]>>
    /\ \E s1, s2, s3 \in {"PENDING", "PAID"} :
          transactions = <<Purchase(1, 20240210, s1), Purchase(2, 20240215, s2),
                           Purchase(3, 20240310, s3)>>
    /\ rules = <<>>
    /\ resp = [op |-> "start", status_code |-> 0]

NextConcurrent ==
    \/ \E m \in ConcurrentMonths :
          Len(sessions) < MaxSessions /\ pay_invoice_query(1, 1, m)
    \/ \E s \in DOMAIN sessions : pay_invoice_commit(s)

SpecConcurrent == InitConcurrent /\ [][NextConcurrent]_vars

\* ------------------------------------------------------------- SpecClock: the time of day

MaxClock == 3

ClockMonths == {YearMonth(2024, 3), YearMonth(2024, 4)}

\* a card of closing day 10 or 31 with a rule of 150 on day 15 or 31, active or
\* not, and the table empty or holding the occurrence of 15 February, entered
\* the day before
InitClock ==
    /\ today = Today
    /\ clock = 0
    /\ sessions = <<>>
    /\ \E closing_day \in {10, 31} :
          cards = <<[id |-> 1, user_id |-> 1, closing_day |-> closing_day, due_day |-> 20]>>
    /\ \E n \in {15, 31}, active \in BOOLEAN :
          rules = <<[id |-> 1, user_id |-> 1, credit_card_id |-> 1, amount |-> 150,
                     bymonthday |-> n, active |-> active, end_date |-> None]>>
    /\ transactions \in
          {<<>>,
           <<[id |-> NewTransactionId(1), user_id |-> 1, credit_card_id |-> 1,
              recurring_rule_id |-> 1, amount |-> 150, date |-> 20240215,
              status |-> "PENDING", created_at |-> <<strftime(Date(2024, 3, 8)), 0>>]>>}
    /\ resp = [op |-> "start", status_code |-> 0]

NextClock ==
    \/ clock < MaxClock /\ ClockTick
    \/ \E m \in ClockMonths : get_credit_card_statement(1, 1, m)

SpecClock == InitClock /\ [][NextClock]_vars

\* ------------------------------------------------------------- SpecProjection: the horizon

\* the day of the projection request: days 29, 30 and 31, a leap day, the last
\* day of a year and a day in the middle of a month
ProjectionDays ==
    {Date(2023, 1, 31), Date(2023, 10, 31), Date(2023, 11, 30), Date(2023, 12, 31),
     Date(2024, 1, 29), Date(2024, 1, 30), Date(2024, 2, 29), Date(2024, 3, 9)}

ProjectionClosingDays == {1, 10, 15, 28, 29, 30, 31}

ProjectionDueDays == {5, 31}

ProjectionRuleDays == {1, 10, 15, 27, 28, 29, 30, 31}

\* the materialized occurrence of rule 1 (150 on day n) in month ym, dated on the
\* last day of the month if the month has no day n
Occurrence(k, n, ym) ==
    [id                |-> NewTransactionId(k),
     user_id           |-> 1,
     credit_card_id    |-> 1,
     recurring_rule_id |-> 1,
     amount            |-> 150,
     date              |-> strftime(get_date_safe(ym.year, ym.month, n)),
     status            |-> "PAID",
     created_at        |-> <<strftime(Date(2023, 1, 1)), 0>>]

\* one card, one active rule of the card on day n, with or without an end date,
\* and at most one occurrence of it materialized, in February or March
InitProjection ==
    /\ today \in ProjectionDays
    /\ clock = 0
    /\ sessions = <<>>
    /\ \E closing_day \in ProjectionClosingDays, due_day \in ProjectionDueDays :
          cards = <<[id |-> 1, user_id |-> 1, closing_day |-> closing_day, due_day |-> due_day]>>
    /\ \E n \in ProjectionRuleDays :
          /\ \E end_date \in {None, RuleEnd} :
                rules = <<[id |-> 1, user_id |-> 1, credit_card_id |-> 1, amount |-> 150,
                           bymonthday |-> n, active |-> TRUE, end_date |-> end_date]>>
          /\ transactions \in
                {<<>>,
                 <<Occurrence(1, n, YearMonth(2023, 2))>>,
                 <<Occurrence(1, n, YearMonth(2023, 3))>>,
                 <<Occurrence(1, n, YearMonth(2024, 2))>>,
                 <<Occurrence(1, n, YearMonth(2024, 3))>>}
    /\ resp = [op |-> "start", status_code |-> 0]

NextProjection ==
    get_credit_card_projection(1, 1)

SpecProjection == InitProjection /\ [][NextProjection]_vars

\* ------------------------------------------------------------- SpecSort: equal dates

SortDates == {20240214, 20240215, 20240216}

SortRuleDays == {14, 15, 16}

\* a card of closing day 10, two active rules of it, and three purchases on it,
\* the first of which may be the occurrence of rule 1
InitSort ==
    /\ today = Today
    /\ clock = 0
    /\ sessions = <<>>
    /\ cards = <<[id |-> 1, user_id |-> 1, closing_day |-> 10, due_day |-> 20]>>
    /\ \E n1, n2 \in SortRuleDays :
          rules = <<[id |-> 1, user_id |-> 1, credit_card_id |-> 1, amount |-> 150,
                     bymonthday |-> n1, active |-> TRUE, end_date |-> None],
                    [id |-> 2, user_id |-> 1, credit_card_id |-> 1, amount |-> 60,
                     bymonthday |-> n2, active |-> TRUE, end_date |-> None]>>
    /\ \E d1, d2, d3 \in SortDates, r \in {None, 1} :
          transactions = <<[Purchase(1, d1, "PAID") EXCEPT !.recurring_rule_id = r],
                           Purchase(2, d2, "PENDING"), Purchase(3, d3, "PENDING")>>
    /\ resp = [op |-> "start", status_code |-> 0]

NextSort ==
    get_credit_card_statement(1, 1, YearMonth(2024, 3))

SpecSort == InitSort /\ [][NextSort]_vars

\* ------------------------------------------------------------- SpecErrors: refused requests

\* the card ids of the requests: card 1 of user 1, card 2 of user 2, and an id
\* no card has
ErrorCardIds == {1, 2, 3}

\* the month parameters of the requests: "2024-03", and two that strptime
\* refuses, "2024-13" and "2024-00"
ErrorMonths == {YearMonth(2024, 3), YearMonth(2024, 13), YearMonth(2024, 0)}

\* a card of each user, a rule of user 1 on card 1, and a purchase of each user
\* on their card in the period of 2024-03, PENDING or PAID
InitErrors ==
    /\ today = Today
    /\ clock = 0
    /\ sessions = <<>>
    /\ cards = <<[id |-> 1, user_id |-> 1, closing_day |-> 10, due_day |-> 20],
                 [id |-> 2, user_id |-> 2, closing_day |-> 10, due_day |-> 20]>>
    /\ rules = <<[id |-> 1, user_id |-> 1, credit_card_id |-> 1, amount |-> 150,
                 bymonthday |-> 15, active |-> TRUE, end_date |-> None]>>
    /\ \E s1, s2 \in {"PENDING", "PAID"} :
          transactions = <<Purchase(1, 20240212, s1),
                           [Purchase(2, 20240212, s2) EXCEPT !.user_id = 2,
                                                             !.credit_card_id = 2]>>
    /\ resp = [op |-> "start", status_code |-> 0]

NextErrors ==
    \/ \E u \in Users, c \in ErrorCardIds, m \in ErrorMonths :
          get_credit_card_statement(u, c, m)
    \/ \E u \in Users, c \in ErrorCardIds, m \in ErrorMonths :
          pay_credit_card_invoice(u, c, m)
    \/ \E u \in Users, c \in ErrorCardIds :
          get_credit_card_projection(u, c)

SpecErrors == InitErrors /\ [][NextErrors]_vars

\* ------------------------------------------------------------- SpecCards: card input

\* due_day and closing_day of the request bodies: below, inside and above 1..31
CardDays == {0, 10, 20, 32}

\* the bodies of POST /credit_cards and PUT /credit_cards/{card_id}
CardBodies == [closing_day : CardDays, due_day : CardDays]

InitCards ==
    /\ today = Today
    /\ clock = 0
    /\ sessions = <<>>
    /\ cards = <<>>
    /\ transactions = <<>>
    /\ rules = <<>>
    /\ resp = [op |-> "start", status_code |-> 0]

NextCards ==
    \/ \E u \in Users, b \in CardBodies :
          Len(cards) < MaxCards /\ create_credit_card(u, b)
    \/ \E u \in Users, c \in 1..MaxCards, b \in CardBodies : update_credit_card(u, c, b)

SpecCards == InitCards /\ [][NextCards]_vars

\* ------------------------------------------------------------- SpecScheduler: the daily run

SchedulerFirstDay == Date(2024, 3, 14)
SchedulerLastDay == Date(2024, 3, 16)

\* the month parameter of the statements: the periods from 10 February to
\* 10 March and from 10 March to 10 April
SchedulerMonths == {YearMonth(2024, 3), YearMonth(2024, 4)}

\* a row of recurring_rules of user 1
ScheduledRule(id, card_id, amount, n, active, auto_create, next_execution, end_date) ==
    [id |-> id, user_id |-> 1, credit_card_id |-> card_id, amount |-> amount,
     bymonthday |-> n, active |-> active, auto_create |-> auto_create,
     last_execution |-> None, next_execution |-> next_execution, end_date |-> end_date]

\* the body of PUT /recurring_rules/1: the rule as a client read it when its
\* execution of 15 March was due, sent back later
StaleRuleBodies ==
    {[credit_card_id |-> 1, amount |-> 150, bymonthday |-> 15, active |-> TRUE,
      auto_create |-> TRUE, last_execution |-> None, next_execution |-> 20240315,
      end_date |-> None]}

\* card 1 closes on day 10. Rule 1, 150 on day 15 of card 1, is auto_create or
\* not, has no next_execution, that of 15 March or that of 15 April, and ends on
\* 14 March or never; rule 2, 80 on day 15 of card 1, is active or not and has no
\* next_execution or the one of 15 February, overdue; rule 3, 40 on day 31, is
\* bound to no card and has no next_execution
InitScheduler ==
    /\ today = SchedulerFirstDay
    /\ clock = 0
    /\ sessions = <<>>
    /\ cards = <<[id |-> 1, user_id |-> 1, closing_day |-> 10, due_day |-> 20]>>
    /\ transactions = <<>>
    /\ \E auto_create \in BOOLEAN, next1 \in {None, 20240315, 20240415},
          end_date \in {None, 20240314}, active \in BOOLEAN, next2 \in {None, 20240215} :
          rules = <<ScheduledRule(1, 1, 150, 15, TRUE, auto_create, next1, end_date),
                    ScheduledRule(2, 1, 80, 15, active, TRUE, next2, None),
                    ScheduledRule(3, None, 40, 31, TRUE, TRUE, None, None)>>
    /\ resp = [op |-> "start", status_code |-> 0]

NextScheduler ==
    \/ \E same_instant \in [DOMAIN rules -> BOOLEAN] : process_recurring_rules(same_instant)
    \/ \E b \in StaleRuleBodies : update_recurring_rule(1, 1, b)
    \/ \E m \in SchedulerMonths : get_credit_card_statement(1, 1, m)
    \/ DateLT(today, SchedulerLastDay) /\ Tick

SpecScheduler == InitScheduler /\ [][NextScheduler]_vars

\* ------------------------------------------------------------- SpecDedup: the dedup key

\* the dates of the persisted transactions: the day of rule 1 and the day after
DedupDates == {20240215, 20240216}

\* the amounts: that of rule 1 and another
DedupAmounts == {150, 60}

\* a card of closing day 10 with two active rules: rule 1, 150 on day 15, and
\* rule 2 on day 15 or 16 with the same amount or another; two transactions of
\* the card, each of rule 1, of rule 2 or of no rule
InitDedup ==
    /\ today = Today
    /\ clock = 0
    /\ sessions = <<>>
    /\ cards = <<[id |-> 1, user_id |-> 1, closing_day |-> 10, due_day |-> 20]>>
    /\ \E n2 \in {15, 16}, amount2 \in DedupAmounts :
          rules = <<[id |-> 1, user_id |-> 1, credit_card_id |-> 1, amount |-> 150,
                     bymonthday |-> 15, active |-> TRUE, end_date |-> None],
                    [id |-> 2, user_id |-> 1, credit_card_id |-> 1, amount |-> amount2,
                     bymonthday |-> n2, active |-> TRUE, end_date |-> None]>>
    /\ \E d1, d2 \in DedupDates, r1, r2 \in {None, 1, 2}, a1, a2 \in DedupAmounts :
          transactions = <<[Purchase(1, d1, "PAID") EXCEPT !.recurring_rule_id = r1,
                                                           !.amount = a1],
                           [Purchase(2, d2, "PENDING") EXCEPT !.recurring_rule_id = r2,
                                                              !.amount = a2]>>
    /\ resp = [op |-> "start", status_code |-> 0]

NextDedup ==
    get_credit_card_statement(1, 1, YearMonth(2024, 3))

SpecDedup == InitDedup /\ [][NextDedup]_vars

\* ------------------------------------------------------------- SpecOverdue: days and payments

OverdueFirstDay == Date(2024, 3, 1)
OverdueLastDay == Date(2024, 4, 5)

\* the month of the statements and payments: the period ends on 10 or 31 March
OverdueMonths == {YearMonth(2024, 3)}

\* one card closing on day 10 or 31 and due on day 5, 20 or 31, and one PENDING
\* purchase of 5 March, a day of the period either way
InitOverdue ==
    /\ today = OverdueFirstDay
    /\ clock = 0
    /\ sessions = <<>>
    /\ \E closing_day \in {10, 31}, due_day \in {5, 20, 31} :
          cards = <<[id |-> 1, user_id |-> 1, closing_day |-> closing_day, due_day |-> due_day]>>
    /\ transactions = <<Purchase(1, 20240305, "PENDING")>>
    /\ rules = <<>>
    /\ resp = [op |-> "start", status_code |-> 0]

NextOverdue ==
    \/ DateLT(today, OverdueLastDay) /\ Tick
    \/ \E m \in OverdueMonths : get_credit_card_statement(1, 1, m)
    \/ \E m \in OverdueMonths : pay_credit_card_invoice(1, 1, m)

SpecOverdue == InitOverdue /\ [][NextOverdue]_vars

\* ------------------------------------------------------------- properties

\* What the specification says of dates, written without the operators above.
DaysIn(year, month) ==
    CASE month \in {1, 3, 5, 7, 8, 10, 12} -> 31
      [] month \in {4, 6, 9, 11} -> 30
      [] OTHER -> IF year % 400 = 0 \/ (year % 4 = 0 /\ year % 100 # 0) THEN 29 ELSE 28

\* safeDate(year, month, day) as a "YYYY-MM-DD" string
SafeDateStr(year, month, day) ==
    year * 10000 + month * 100 + (IF day > DaysIn(year, month) THEN DaysIn(year, month) ELSE day)

\* the first and the excluded last day of the statement of month ym
ExpectedEnd(closing_day, ym) == SafeDateStr(ym.year, ym.month, closing_day)

ExpectedStart(closing_day, ym) ==
    IF ym.month = 1 THEN SafeDateStr(ym.year - 1, 12, closing_day)
    ELSE SafeDateStr(ym.year, ym.month - 1, closing_day)

StatementReturned == resp.op = "statement" /\ resp.status_code = 200

PaymentReturned == resp.op = "pay_invoice" /\ resp.status_code = 200

Items == resp.body.transactions

IsVirtual(item) == item.id[1] = "virtual"

\* the requested card, as stored
RequestedCard == cards[resp.card_id]

\* the caller's persisted transactions of the requested card dated in the period
InStatement(t) ==
    /\ t.user_id = resp.user_id
    /\ t.credit_card_id = resp.card_id
    /\ t.date >= ExpectedStart(RequestedCard.closing_day, resp.month)
    /\ t.date < ExpectedEnd(RequestedCard.closing_day, resp.month)

\* rule id R is an active rule that falls on the day of month of date string d
ActiveRuleOn(R, d) ==
    \E j \in DOMAIN rules :
        /\ rules[j].id = R
        /\ rules[j].active
        /\ rules[j].bymonthday = d % 100

\* the positions of the returned items of rule R dated d
ItemsOf(R, d) ==
    {k \in DOMAIN Items : Items[k].recurring_rule_id = R /\ Items[k].date = d}

RECURSIVE SumOver(_, _)
SumOver(f, S) ==
    IF S = {} THEN 0
    ELSE LET x == CHOOSE y \in S : TRUE IN f[x].amount + SumOver(f, S \ {x})

\* C1 as stated: a persisted transaction (of the caller) of the card with rule
\* R dated d in the period, R active and falling on d: the statement holds
\* exactly one item for (R, d), and it is that transaction.
C1_ExactlyOneItem ==
    StatementReturned =>
        \A i \in DOMAIN transactions :
            LET t == transactions[i] IN
            ( /\ InStatement(t)
              /\ t.recurring_rule_id # None
              /\ ActiveRuleOn(t.recurring_rule_id, t.date) )
            => /\ Cardinality(ItemsOf(t.recurring_rule_id, t.date)) = 1
               /\ \A k \in ItemsOf(t.recurring_rule_id, t.date) : Items[k].id = t.id

\* C1 amended: when a persisted transaction of the caller on the card has rule R
\* and date d in the period, and R is active and falls on d, the statement holds
\* no virtual item for (R, d); its items for (R, d) are the caller's persisted
\* transactions of the card with that rule and date, each listed once (one item
\* when one such transaction is persisted), and the total is the sum of the
\* listed amounts, so the occurrence is counted through them alone.
C1_NoVirtualDuplicate ==
    StatementReturned =>
        \A i \in DOMAIN transactions :
            LET t == transactions[i]
                R == t.recurring_rule_id
                same == {j \in DOMAIN transactions :
                            /\ InStatement(transactions[j])
                            /\ transactions[j].recurring_rule_id = R
                            /\ transactions[j].date = t.date}
            IN ( InStatement(t) /\ R # None /\ ActiveRuleOn(R, t.date) )
               => /\ \A k \in ItemsOf(R, t.date) : ~IsVirtual(Items[k])
                  /\ {Items[k].id : k \in ItemsOf(R, t.date)} = {transactions[j].id : j \in same}
                  /\ Cardinality(ItemsOf(R, t.date)) = Cardinality(same)
                  /\ (Cardinality(same) = 1 => Cardinality(ItemsOf(R, t.date)) = 1)
                  /\ resp.body.total = SumOver(Items, DOMAIN Items)

\* a statement of a period that holds the materialized occurrence of an active
\* rule of the card: one item for it, the transaction
C1_Witness ==
    /\ StatementReturned
    /\ \E i \in DOMAIN transactions :
          /\ InStatement(transactions[i])
          /\ transactions[i].recurring_rule_id # None
          /\ \E j \in DOMAIN rules :
                /\ rules[j].id = transactions[i].recurring_rule_id
                /\ RuleFilter(rules[j], resp.user_id, resp.card_id)
                /\ rules[j].end_date = None
                /\ rules[j].bymonthday = transactions[i].date % 100
          /\ Cardinality(ItemsOf(transactions[i].recurring_rule_id, transactions[i].date)) = 1

\* the date strings on which a rule of day n falls in the months of the first and
\* the last day of the period: the days that exist in those months
OccurrencesIn(n, start, end) ==
    {d \in {(start \div 100) * 100 + n, (end \div 100) * 100 + n} :
        /\ n >= 1
        /\ n <= DaysIn(d \div 10000, (d \div 100) % 100)
        /\ start <= d
        /\ d < end}

\* C6: every non-virtual item of a statement is a persisted transaction of the
\* caller on the requested card dated in [start, end), listed once and as
\* stored, and every such transaction is listed; the total less the virtual
\* amounts is the sum of exactly these transactions.
C6_RealItemsArePeriodTransactions ==
    StatementReturned =>
        LET real == {k \in DOMAIN Items : ~IsVirtual(Items[k])}
            shown == {i \in DOMAIN transactions : InStatement(transactions[i])}
        IN /\ \A k \in real :
                \E i \in shown : Items[k] = NormalizedItem(transactions[i])
           /\ \A i \in shown :
                Cardinality({k \in real : Items[k].id = transactions[i].id}) = 1
           /\ Cardinality(real) = Cardinality(shown)
           /\ resp.body.total - SumOver(Items, DOMAIN Items \ real)
                 = SumOver(transactions, shown)

\* a statement listing a transaction while the table also holds another user's
\* transaction of the same card and one dated on the closing day
C6_Witness ==
    /\ StatementReturned
    /\ \E k \in DOMAIN Items : ~IsVirtual(Items[k])
    /\ \E i \in DOMAIN transactions :
          /\ transactions[i].credit_card_id = resp.card_id
          /\ \/ transactions[i].user_id # resp.user_id
             \/ transactions[i].date = resp.body.period.end
          /\ \A k \in DOMAIN Items : Items[k].id # transactions[i].id

\* C7: the total of a statement is the sum of the amounts of the items of its
\* transactions list, real and virtual.
C7_TotalIsSumOfItems ==
    StatementReturned => resp.body.total = SumOver(Items, DOMAIN Items)

\* a statement with a real and a virtual item
C7_Witness ==
    /\ StatementReturned
    /\ \E k \in DOMAIN Items : IsVirtual(Items[k])
    /\ \E k \in DOMAIN Items : ~IsVirtual(Items[k])
    /\ resp.body.total = 190

\* C8: for an active rule of the caller bound to the requested card, each date d
\* of [start, end) on which the rule falls, not after its end_date and with no
\* listed persisted transaction of that rule and date, has a virtual item in the
\* statement: PENDING, with the rule's amount, counted in the total.
C8_VirtualItemForOpenOccurrence ==
    StatementReturned =>
        \A j \in DOMAIN rules :
            LET r == rules[j] IN
            ( r.active /\ r.credit_card_id = resp.card_id /\ r.user_id = resp.user_id
              /\ r.bymonthday # None )
            => \A d \in OccurrencesIn(r.bymonthday,
                                      ExpectedStart(RequestedCard.closing_day, resp.month),
                                      ExpectedEnd(RequestedCard.closing_day, resp.month)) :
                 ( /\ r.end_date = None \/ d <= r.end_date
                   /\ ~\E i \in DOMAIN transactions :
                          /\ InStatement(transactions[i])
                          /\ transactions[i].recurring_rule_id = r.id
                          /\ transactions[i].date = d )
                 => /\ \E k \in DOMAIN Items :
                          /\ IsVirtual(Items[k])
                          /\ Items[k].recurring_rule_id = r.id
                          /\ Items[k].date = d
                          /\ Items[k].status = "PENDING"
                          /\ Items[k].amount = r.amount
                    /\ resp.body.total = SumOver(Items, DOMAIN Items)

\* scenario 2: closing day 10, month 2024-03, 150 on day 15, nothing persisted
\* for it: a PENDING virtual item of 150 dated 2024-02-15
C8_Witness ==
    /\ StatementReturned
    /\ RequestedCard.closing_day = 10
    /\ resp.month = YearMonth(2024, 3)
    /\ \E k \in DOMAIN Items :
          /\ IsVirtual(Items[k])
          /\ Items[k].date = 20240215
          /\ Items[k].status = "PENDING"
          /\ Items[k].amount = 150
    /\ resp.body.total >= 150

\* the transactions pay_invoice is to transition: the caller's PENDING
\* transactions of the card dated in [start, end)
ToPay(t) ==
    /\ t.user_id = resp.user_id
    /\ t.credit_card_id = resp.card_id
    /\ t.status = "PENDING"
    /\ t.date >= ExpectedStart(RequestedCard.closing_day, resp.month)
    /\ t.date < ExpectedEnd(RequestedCard.closing_day, resp.month)

\* C10: pay_invoice sets to PAID exactly the caller's PENDING transactions of the
\* card dated in [start, end) and returns their number.
C10_PaysExactlyThePending ==
    PaymentReturned =>
        /\ DOMAIN transactions = DOMAIN resp.before
        /\ \A i \in DOMAIN resp.before :
              transactions[i].status =
                  IF ToPay(resp.before[i]) THEN "PAID" ELSE resp.before[i].status
        /\ resp.body.count = Cardinality({i \in DOMAIN resp.before : ToPay(resp.before[i])})

\* a payment that transitions a transaction of a period that also holds a paid one
C10_Witness ==
    /\ PaymentReturned
    /\ resp.body.count = 1
    /\ \E i, j \in DOMAIN resp.before :
          /\ ToPay(resp.before[i])
          /\ resp.before[j].status = "PAID"
          /\ resp.before[j].credit_card_id = resp.card_id
          /\ resp.before[j].user_id = resp.user_id
          /\ transactions[i].status = "PAID"
          /\ transactions[j].status = "PAID"

ProjectionReturned == resp.op = "projection" /\ resp.status_code = 200

\* today as a "YYYY-MM-DD" string
TodayStr == today.year * 10000 + today.month * 100 + today.day

\* C2: the statement, the payment and each entry of the projection are computed
\* over start = safeDate(previous month, closing_day) and end = safeDate(target
\* month, closing_day), and the interval is half-open: a transaction dated on
\* start is listed, paid and summed, one dated on end is not.
C2_PeriodOfTheThreeHandlers ==
    /\ StatementReturned =>
          /\ resp.body.period.start = ExpectedStart(RequestedCard.closing_day, resp.month)
          /\ resp.body.period.end = ExpectedEnd(RequestedCard.closing_day, resp.month)
          /\ \A i \in DOMAIN transactions :
                LET t == transactions[i]
                    listed == \E k \in DOMAIN Items : Items[k].id = t.id
                IN /\ t.date = ExpectedStart(RequestedCard.closing_day, resp.month) => listed
                   /\ t.date = ExpectedEnd(RequestedCard.closing_day, resp.month) => ~listed
    /\ PaymentReturned =>
          /\ resp.start = ExpectedStart(RequestedCard.closing_day, resp.month)
          /\ resp.end = ExpectedEnd(RequestedCard.closing_day, resp.month)
          /\ \A i \in DOMAIN resp.before :
                LET t == resp.before[i] IN
                /\ t.date = ExpectedStart(RequestedCard.closing_day, resp.month)
                      => transactions[i].status = "PAID"
                /\ t.date = ExpectedEnd(RequestedCard.closing_day, resp.month)
                      => transactions[i].status = t.status
    /\ ProjectionReturned =>
          \A k \in DOMAIN resp.body :
             LET e == resp.body[k]
                 first == ExpectedStart(RequestedCard.closing_day, e.month)
                 last == ExpectedEnd(RequestedCard.closing_day, e.month)
             IN /\ e.start = first
                /\ e.end = last
                /\ rules = <<>> =>
                      e.total = SumOver(transactions,
                                        {i \in DOMAIN transactions :
                                            /\ transactions[i].date >= first
                                            /\ transactions[i].date < last})

\* scenario 1: closing day 10, month 2024-03: the period is 2024-02-10 ..
\* 2024-03-10, the purchase of 10 February is listed, that of 10 March is not
C2_Witness ==
    /\ StatementReturned
    /\ RequestedCard.closing_day = 10
    /\ resp.month = YearMonth(2024, 3)
    /\ resp.body.period = [start |-> 20240210, end |-> 20240310]
    /\ \E i, j \in DOMAIN transactions :
          /\ transactions[i].date = 20240210
          /\ transactions[j].date = 20240310
          /\ \E k \in DOMAIN Items : Items[k].id = transactions[i].id
          /\ \A k \in DOMAIN Items : Items[k].id # transactions[j].id

\* C3: the period of every statement, payment and projection entry has
\* start < end.
C3_PeriodNotEmpty ==
    /\ StatementReturned => resp.body.period.start < resp.body.period.end
    /\ PaymentReturned => resp.start < resp.end
    /\ ProjectionReturned => \A k \in DOMAIN resp.body : resp.body[k].start < resp.body[k].end

\* the statement of a January with closing day 31: from 31 December of the year
\* before
C3_Witness ==
    /\ StatementReturned
    /\ resp.month = YearMonth(2024, 1)
    /\ RequestedCard.closing_day = 31
    /\ resp.body.period = [start |-> 20231231, end |-> 20240131]

\* C4: a statement holds at most one projected occurrence of a rule.
C4_AtMostOneOccurrence ==
    StatementReturned =>
        \A j \in DOMAIN rules :
            Cardinality({k \in DOMAIN Items :
                            IsVirtual(Items[k]) /\ Items[k].recurring_rule_id = rules[j].id}) <= 1

\* C5: every virtual item of a statement is dated in [start, end) and not after
\* the end_date of its rule, and its rule is active and bound to the requested
\* card.
C5_VirtualItemsInPeriod ==
    StatementReturned =>
        \A k \in DOMAIN Items :
            IsVirtual(Items[k]) =>
                \E j \in DOMAIN rules :
                    /\ rules[j].id = Items[k].recurring_rule_id
                    /\ rules[j].active
                    /\ rules[j].credit_card_id = resp.card_id
                    /\ rules[j].end_date # None => Items[k].date <= rules[j].end_date
                    /\ Items[k].date >= ExpectedStart(RequestedCard.closing_day, resp.month)
                    /\ Items[k].date < ExpectedEnd(RequestedCard.closing_day, resp.month)

\* closing day 31, month 2024-03, a rule on day 29 that ended on 29 February:
\* the occurrence of 29 February is projected, that of 29 March is not
C5_Witness ==
    /\ StatementReturned
    /\ resp.month = YearMonth(2024, 3)
    /\ RequestedCard.closing_day = 31
    /\ rules[1].bymonthday = 29
    /\ rules[1].end_date = RuleEnd
    /\ Len(Items) = 1
    /\ IsVirtual(Items[1])
    /\ Items[1].date = 20240229

\* C9: the status of a statement is OPEN iff today < end, CLOSED iff today >= end
\* and today <= safeDate(target month, due_day), OVERDUE iff today >= end and
\* today > safeDate(target month, due_day).
C9_StatusByTodayEndAndDueDate ==
    StatementReturned =>
        LET last == ExpectedEnd(RequestedCard.closing_day, resp.month)
            due == SafeDateStr(resp.month.year, resp.month.month, RequestedCard.due_day)
        IN /\ resp.body.status \in {"OPEN", "CLOSED", "OVERDUE"}
           /\ resp.body.status = "OPEN" <=> TodayStr < last
           /\ resp.body.status = "CLOSED" <=> (TodayStr >= last /\ TodayStr <= due)
           /\ resp.body.status = "OVERDUE" <=> (TodayStr >= last /\ TodayStr > due)
           /\ resp.body.due_date = due
           /\ ( /\ RequestedCard.closing_day = 10
                /\ RequestedCard.due_day = 20
                /\ resp.month = YearMonth(2024, 3)
                /\ TodayStr = 20240325 ) => resp.body.status = "OVERDUE"

\* scenario 4: closing day 10, due day 20, month 2024-03, today 2024-03-15: CLOSED
C9_Witness ==
    /\ StatementReturned
    /\ RequestedCard.closing_day = 10
    /\ RequestedCard.due_day = 20
    /\ resp.month = YearMonth(2024, 3)
    /\ today = Date(2024, 3, 15)
    /\ resp.body.status = "CLOSED"

\* C11: a pay_invoice that directly follows a served pay_invoice of the same
\* caller, card and month returns count 0 and leaves the table as the first
\* left it, with every transaction of the caller on the card dated in the
\* period PAID.
C11_SecondPaymentChangesNothing ==
    (PaymentReturned /\ resp.repeat) =>
        /\ resp.body.count = 0
        /\ transactions = resp.before
        /\ \A i \in DOMAIN transactions :
              InStatement(transactions[i]) => transactions[i].status = "PAID"

\* the second of two payments of a period that holds a purchase entered PENDING
C11_Witness ==
    /\ PaymentReturned
    /\ resp.repeat
    /\ resp.body.count = 0
    /\ \E i \in DOMAIN transactions :
          /\ InStatement(transactions[i])
          /\ transactions[i].recurring_rule_id = None
          /\ transactions[i].status = "PAID"

\* the virtual items of the statement of month for user_id and card_id, as the
\* store stands
VirtualItemsOf(user_id, card_id, month) ==
    SelectSeq(StatementBody(user_id, cards[card_id], month).transactions, IsVirtual)

\* C12: a pay_invoice step leaves the cards and the rules as they are, creates
\* and deletes no transaction, and changes nothing of a transaction but the
\* status of the caller's PENDING transactions of the card dated in [start, end),
\* which becomes PAID: a transaction of another period, card or user, or one
\* already PAID, stays as it is, and so do amount, date and rule of the paid
\* ones.  (A virtual item is not a row: it is computed from the rules and from
\* the rule ids and dates of the transactions, all of which the step keeps.)
C12_PaymentFrame ==
    [][ (resp'.op = "pay_invoice" /\ resp'.status_code = 200) =>
          LET first == ExpectedStart(cards[resp'.card_id].closing_day, resp'.month)
              last == ExpectedEnd(cards[resp'.card_id].closing_day, resp'.month)
              selected(t) == /\ t.user_id = resp'.user_id
                             /\ t.credit_card_id = resp'.card_id
                             /\ t.status = "PENDING"
                             /\ t.date >= first
                             /\ t.date < last
          IN /\ cards' = cards
             /\ rules' = rules
             /\ DOMAIN transactions' = DOMAIN transactions
             /\ \A i \in DOMAIN transactions :
                   transactions'[i] = IF selected(transactions[i])
                                      THEN [transactions[i] EXCEPT !.status = "PAID"]
                                      ELSE transactions[i]
      ]_vars

\* a payment that pays a purchase of the period while the table holds a
\* transaction it must not touch (dated on the closing day, or of another user)
\* and the card has a rule with a projected occurrence in the period
C12_Witness ==
    /\ PaymentReturned
    /\ resp.body.count >= 1
    /\ \E i, j \in DOMAIN resp.before :
          /\ ToPay(resp.before[i])
          /\ transactions[i].status = "PAID"
          /\ resp.before[j].status = "PENDING"
          /\ transactions[j].status = "PENDING"
    /\ VirtualItemsOf(resp.user_id, resp.card_id, resp.month) # <<>>

\* C13: two pay_invoice requests of the same caller, card and month, their
\* queries and commits interleaved in any order: once both have returned, every
\* transaction of the caller on the card dated in [start, end) that was PENDING
\* before the first query is PAID and is among the rows counted by one of the
\* two at least, and each count is the number of rows the request selected.
C13_AtLeastOncePayment ==
    \A p, q \in DOMAIN sessions :
        ( /\ p < q
          /\ sessions[p].pc = "returned"
          /\ sessions[q].pc = "returned"
          /\ sessions[p].user_id = sessions[q].user_id
          /\ sessions[p].card_id = sessions[q].card_id
          /\ sessions[p].month = sessions[q].month )
        => LET c == sessions[p].card_id
               m == sessions[p].month
               first == ExpectedStart(cards[c].closing_day, m)
               last == ExpectedEnd(cards[c].closing_day, m)
               beforehand == sessions[p].before
               pending == {i \in DOMAIN beforehand :
                              /\ beforehand[i].user_id = sessions[p].user_id
                              /\ beforehand[i].credit_card_id = c
                              /\ beforehand[i].status = "PENDING"
                              /\ beforehand[i].date >= first
                              /\ beforehand[i].date < last}
           IN /\ \A i \in pending :
                    /\ transactions[i].status = "PAID"
                    /\ i \in sessions[p].selected \cup sessions[q].selected
              /\ sessions[p].count = Cardinality(sessions[p].selected)
              /\ sessions[q].count = Cardinality(sessions[q].selected)

\* both requests queried before either committed: the two PENDING purchases of
\* the period are counted by both (counts 2 and 2 for two rows paid)
C13_Witness ==
    /\ Len(sessions) = 2
    /\ sessions[1].pc = "returned"
    /\ sessions[2].pc = "returned"
    /\ sessions[1].month = sessions[2].month
    /\ sessions[1].count = 2
    /\ sessions[2].count = 2
    /\ sessions[1].selected = sessions[2].selected
    /\ \A i \in sessions[1].selected : transactions[i].status = "PAID"

\* C14: a statement served after a statement of the same caller, card and
\* month, on the same day, with the cards, transactions and rules as they were,
\* has the same body as the first, whatever the time of day of either.
C14_StatementIdempotent ==
    [][ ( /\ resp.op = "statement"
          /\ resp.status_code = 200
          /\ resp'.op = "statement"
          /\ resp'.status_code = 200
          /\ resp'.user_id = resp.user_id
          /\ resp'.card_id = resp.card_id
          /\ resp'.month = resp.month
          /\ today' = today
          /\ cards' = cards
          /\ transactions' = transactions
          /\ rules' = rules )
        => resp'.body = resp.body
      ]_vars

\* C15: the projection is a sequence of 12 entries; entry k (from 1) is of the
\* calendar month k - 1 months after today's, the year rolling over after
\* December, whatever the day of today; its due_date is safeDate(that month,
\* due_day).
C15_TwelveConsecutiveMonths ==
    ProjectionReturned =>
        /\ DOMAIN resp.body = 1..12
        /\ \A k \in 1..12 :
              LET n == today.month + (k - 1)
                  y == IF n > 12 THEN today.year + 1 ELSE today.year
                  m == IF n > 12 THEN n - 12 ELSE n
              IN /\ resp.body[k].month = [year |-> y, month |-> m]
                 /\ resp.body[k].due_date = SafeDateStr(y, m, RequestedCard.due_day)

\* the projection of 31 December 2023 for due day 31: December 2023, then
\* January 2024, February 2024 due on the 29th, ... up to November 2024
C15_Witness ==
    /\ ProjectionReturned
    /\ today = Date(2023, 12, 31)
    /\ RequestedCard.due_day = 31
    /\ Len(resp.body) = 12
    /\ resp.body[1].month = YearMonth(2023, 12)
    /\ resp.body[3].month = YearMonth(2024, 2)
    /\ resp.body[3].due_date = 20240229
    /\ resp.body[12].month = YearMonth(2024, 11)
    /\ resp.body[12].due_date = 20241130

\* what rule r may add to the total of the period [first, last) of a projection:
\* its amount, once, if one of the dates on which it falls in the period is not
\* after its end_date and has no persisted transaction of the caller on the card
\* with the rule's id and that date; nothing otherwise
ProjectedAmount(r, first, last) ==
    IF \E d \in OccurrencesIn(r.bymonthday, first, last) :
          /\ r.end_date = None \/ d <= r.end_date
          /\ ~\E i \in DOMAIN transactions :
                 /\ transactions[i].user_id = resp.user_id
                 /\ transactions[i].credit_card_id = resp.card_id
                 /\ transactions[i].date >= first
                 /\ transactions[i].date < last
                 /\ transactions[i].recurring_rule_id = r.id
                 /\ transactions[i].date = d
    THEN r.amount
    ELSE 0

RECURSIVE SumProjected(_, _, _)
SumProjected(J, first, last) ==
    IF J = {} THEN 0
    ELSE LET j == CHOOSE x \in J : TRUE
         IN ProjectedAmount(rules[j], first, last) + SumProjected(J \ {j}, first, last)

\* C16: the total of each entry of a projection is the sum of the caller's
\* transactions of the card dated in the entry's period plus, for each active
\* rule of the caller bound to the card, the rule's amount at most once: once if
\* a date of the rule in the period is open (not after the rule's end_date, no
\* persisted transaction with the rule's id and that date), even when two dates
\* of the rule lie in the period, and nothing if no date is open.
C16_RuleAddedAtMostOnce ==
    ProjectionReturned =>
        \A k \in DOMAIN resp.body :
            LET e == resp.body[k]
                billed == {i \in DOMAIN transactions :
                              /\ transactions[i].user_id = resp.user_id
                              /\ transactions[i].credit_card_id = resp.card_id
                              /\ transactions[i].date >= e.start
                              /\ transactions[i].date < e.end}
                bound == {j \in DOMAIN rules :
                             /\ rules[j].user_id = resp.user_id
                             /\ rules[j].credit_card_id = resp.card_id
                             /\ rules[j].active
                             /\ rules[j].bymonthday # None}
            IN e.total = SumOver(transactions, billed) + SumProjected(bound, e.start, e.end)

\* closing day 29, a rule on day 28 and nothing persisted: the period of March
\* 2023 is [02-28, 03-29), both 28 February and 28 March lie in it, and the
\* entry's total is 150, not 300
C16_Witness ==
    /\ ProjectionReturned
    /\ RequestedCard.closing_day = 29
    /\ rules[1].bymonthday = 28
    /\ rules[1].end_date = None
    /\ transactions = <<>>
    /\ \E k \in DOMAIN resp.body :
          /\ resp.body[k].month = YearMonth(2023, 3)
          /\ resp.body[k].start = 20230228
          /\ resp.body[k].end = 20230329
          /\ OccurrencesIn(28, 20230228, 20230329) = {20230228, 20230328}
          /\ resp.body[k].total = 150

\* the candidates of a rule of day n as the specification computes them:
\* safeDate(n) in the month of start and, if it is another month, in the month
\* of end; those of [start, end)
ClampedOccurrencesIn(n, start, end) ==
    {d \in {SafeDateStr(start \div 10000, (start \div 100) % 100, n),
            SafeDateStr(end \div 10000, (end \div 100) % 100, n)} :
        start <= d /\ d < end}

\* C17: for an active rule of the caller bound to the card, on day N, each
\* clamped candidate (safeDate of N in the month of start, and in the month of
\* end) that lies in [start, end), is not after the rule's end_date and has no
\* persisted transaction of that rule and date, is a virtual item of the
\* statement: a rule on day 29, 30 or 31 falls on the last day of a shorter
\* month.
C17_CandidatesClamped ==
    StatementReturned =>
        \A j \in DOMAIN rules :
            LET r == rules[j] IN
            ( r.active /\ r.credit_card_id = resp.card_id /\ r.user_id = resp.user_id
              /\ r.bymonthday # None )
            => \A d \in ClampedOccurrencesIn(r.bymonthday, resp.body.period.start,
                                             resp.body.period.end) :
                 ( /\ r.end_date = None \/ d <= r.end_date
                   /\ ~\E i \in DOMAIN transactions :
                          /\ InStatement(transactions[i])
                          /\ transactions[i].recurring_rule_id = r.id
                          /\ transactions[i].date = d )
                 => \E k \in DOMAIN Items :
                        /\ IsVirtual(Items[k])
                        /\ Items[k].recurring_rule_id = r.id
                        /\ Items[k].date = d

\* C18: get_date_safe(year, month, day) never fails and gives day
\* min(day, days of the month) of that month and year, as seen in the end of the
\* period (day = closing_day) and in the due date (day = due_day) of every
\* statement; closing day 31 in February ends the period on the 29th in a leap
\* year and on the 28th otherwise.
C18_SafeDateIsClamped ==
    StatementReturned =>
        LET y == resp.month.year
            m == resp.month.month
            days == DaysIn(y, m)
            min(a, b) == IF a < b THEN a ELSE b
            last == resp.body.period.end
            due == resp.body.due_date
        IN /\ last \div 10000 = y
           /\ (last \div 100) % 100 = m
           /\ last % 100 = min(RequestedCard.closing_day, days)
           /\ due \div 10000 = y
           /\ (due \div 100) % 100 = m
           /\ due % 100 = min(RequestedCard.due_day, days)
           /\ (RequestedCard.closing_day = 31 /\ m = 2) =>
                 last % 100 = IF y % 4 = 0 /\ (y % 100 # 0 \/ y % 400 = 0) THEN 29 ELSE 28

\* closing day 31, month February 2023: the period ends on 28 February
C18_Witness ==
    /\ StatementReturned
    /\ RequestedCard.closing_day = 31
    /\ resp.month = YearMonth(2023, 2)
    /\ resp.body.period.end = 20230228

\* the place of the k-th returned item in the list before the sort
PlaceBeforeSort(k) == CHOOSE j \in DOMAIN resp.unsorted : resp.unsorted[j] = Items[k]

\* C19: the transactions of a statement are the items of the list before the
\* sort, each once, newest first, and items of equal date are in the order they
\* had before the sort, where the real transactions come first, in the order of
\* the query, and the virtual items after them, in the order of their rules:
\* nothing but the date decides the place of an item.
C19_SortedByDateStable ==
    StatementReturned =>
        /\ Len(Items) = Len(resp.unsorted)
        /\ \A j \in DOMAIN resp.unsorted : \E k \in DOMAIN Items : Items[k] = resp.unsorted[j]
        /\ \A k, l \in DOMAIN Items :
              k < l =>
                 /\ Items[k].date >= Items[l].date
                 /\ Items[k].date = Items[l].date =>
                       /\ PlaceBeforeSort(k) < PlaceBeforeSort(l)
                       /\ IsVirtual(Items[k]) => IsVirtual(Items[l])
                       /\ (IsVirtual(Items[k]) /\ IsVirtual(Items[l])) =>
                             Items[k].recurring_rule_id < Items[l].recurring_rule_id
                       /\ (~IsVirtual(Items[k]) /\ ~IsVirtual(Items[l])) =>
                             Items[k].id[2] < Items[l].id[2]

\* before the sort: two purchases of 15 February, one of the 14th, the virtual
\* item of rule 1 on the 16th and that of rule 2 on the 15th; after it the item
\* of the 16th is first and that of the 15th follows the two purchases of its
\* date
C19_Witness ==
    /\ StatementReturned
    /\ Len(Items) = 5
    /\ Items[1] = resp.unsorted[4]
    /\ IsVirtual(Items[1]) /\ Items[1].date = 20240216
    /\ Items[2] = resp.unsorted[1]
    /\ Items[3] = resp.unsorted[2]
    /\ ~IsVirtual(Items[2]) /\ Items[2].date = 20240215
    /\ ~IsVirtual(Items[3]) /\ Items[3].date = 20240215
    /\ Items[4] = resp.unsorted[5]
    /\ IsVirtual(Items[4]) /\ Items[4].date = 20240215
    /\ Items[5] = resp.unsorted[3]
    /\ Items[5].date = 20240214

\* the card of the last request exists and is the caller's
CallerOwnsCard ==
    \E i \in DOMAIN cards :
        cards[i].id = resp.card_id /\ cards[i].user_id = resp.user_id

\* C20: a statement or pay_invoice request for a card that does not exist or is
\* another user's is answered 404; for a card of the caller and a month that
\* does not parse, 400; otherwise 200; a projection request is answered 404
\* under the same rule and 200 otherwise; and a request answered 404 or 400
\* leaves cards, transactions and rules as they were.
C20_ErrorOutcomes ==
    /\ [] ( /\ resp.op \in {"statement", "pay_invoice"} =>
                 resp.status_code =
                     IF ~CallerOwnsCard THEN 404
                     ELSE IF resp.month.month < 1 \/ resp.month.month > 12 THEN 400
                     ELSE 200
            /\ resp.op = "projection" =>
                 resp.status_code = IF ~CallerOwnsCard THEN 404 ELSE 200 )
    /\ [][ ( /\ resp'.op \in {"statement", "pay_invoice", "projection"}
              /\ resp'.status_code \in {400, 404} )
            => /\ cards' = cards
               /\ transactions' = transactions
               /\ rules' = rules
          ]_vars

\* pay_invoice of user 1 for the card of user 2, refused with 404 while the
\* purchase of user 2 on that card is still PENDING
C20_Witness ==
    /\ resp.op = "pay_invoice"
    /\ resp.status_code = 404
    /\ resp.user_id = 1
    /\ resp.card_id = 2
    /\ cards[2].user_id = 2
    /\ \E i \in DOMAIN transactions :
          /\ transactions[i].credit_card_id = 2
          /\ transactions[i].status = "PENDING"

\* ------------------------------------------------------------- card input

CardRequestReturned == resp.op \in {"create_credit_card", "update_credit_card"}

\* C21: every persisted card has due_day and closing_day in 1..31 with due_day
\* after closing_day, and a request to create or update a card whose days are
\* outside 1..31, or whose due_day is not after its closing_day, is refused
C21_CardDaysValidated ==
    /\ \A i \in DOMAIN cards :
          /\ cards[i].due_day \in 1..31
          /\ cards[i].closing_day \in 1..31
          /\ cards[i].due_day > cards[i].closing_day
    /\ (/\ CardRequestReturned
        /\ \/ resp.due_day \notin 1..31
           \/ resp.closing_day \notin 1..31
           \/ resp.due_day <= resp.closing_day)
       => resp.status_code = 422

\* ------------------------------------------------------------- the scheduler

SchedulerReturned == resp.op = "process_recurring_rules"

\* the positions of the transactions stored by the run that just returned
CreatedByRun == {n \in DOMAIN transactions : n > Len(resp.before.transactions)}

\* the rule at position i was due when the run started
DueBefore(i) ==
    LET r == resp.before.rules[i]
    IN /\ r.active
       /\ r.auto_create
       /\ r.next_execution # None
       /\ r.next_execution <= TodayStr

\* the rule at position i was none of the run's business when it started
IdleBefore(i) ==
    LET r == resp.before.rules[i]
    IN \/ ~r.active
       \/ ~r.auto_create
       \/ r.next_execution # None /\ r.next_execution > TodayStr

\* C22: the statement counts an occurrence d of a card-bound auto_create rule R
\* exactly once whenever it is requested, and once a run of the scheduler has
\* found the occurrence due (next_execution = d <= today), the one item of (R, d)
\* in the statement of the period of d is the persisted transaction, not a
\* virtual item
C22_OnceBeforeAndAfterScheduler ==
    /\ StatementReturned =>
          \A i \in DOMAIN rules :
             (/\ rules[i].user_id = resp.user_id
              /\ rules[i].credit_card_id = resp.card_id
              /\ rules[i].active
              /\ rules[i].auto_create) =>
                \A d \in OccurrencesIn(rules[i].bymonthday, resp.body.period.start,
                                       resp.body.period.end) :
                   (rules[i].end_date = None \/ d <= rules[i].end_date) =>
                      Cardinality(ItemsOf(rules[i].id, d)) = 1
    /\ SchedulerReturned =>
          \A i \in DOMAIN rules :
             (/\ DueBefore(i)
              /\ rules[i].credit_card_id # None
              /\ rules[i].active
              /\ resp.before.rules[i].next_execution % 100 = rules[i].bymonthday
              /\ \/ rules[i].end_date = None
                 \/ resp.before.rules[i].next_execution <= rules[i].end_date) =>
                LET d == resp.before.rules[i].next_execution
                    card == cards[rules[i].credit_card_id]
                IN \A m \in SchedulerMonths :
                      (/\ ExpectedStart(card.closing_day, m) <= d
                       /\ d < ExpectedEnd(card.closing_day, m)) =>
                         LET listed == StatementBody(rules[i].user_id, card, m).transactions
                             of == {k \in DOMAIN listed :
                                       /\ listed[k].recurring_rule_id = rules[i].id
                                       /\ listed[k].date = d}
                         IN /\ Cardinality(of) = 1
                            /\ \A k \in of : ~IsVirtual(listed[k])

\* C25: a run stores, for every rule that is active and auto_create with
\* next_execution on or before today, one PENDING transaction of the rule's owner
\* dated next_execution with the rule's amount, sets last_execution to that date
\* and next_execution to a later date or none; a rule that is inactive, not
\* auto_create or has its next_execution after today is left as it was, and no
\* transaction is stored for it
C25_RunExecutesDueRules ==
    SchedulerReturned =>
       /\ \A i \in DOMAIN rules :
             DueBefore(i) =>
                LET r == resp.before.rules[i]
                IN /\ Cardinality({n \in CreatedByRun :
                                      /\ transactions[n].user_id = r.user_id
                                      /\ transactions[n].date = r.next_execution
                                      /\ transactions[n].amount = r.amount
                                      /\ transactions[n].status = "PENDING"}) = 1
                   /\ rules[i].last_execution = r.next_execution
                   /\ \/ rules[i].next_execution = None
                      \/ rules[i].next_execution > r.next_execution
       /\ \A i \in DOMAIN rules : IdleBefore(i) => rules[i] = resp.before.rules[i]
       /\ \A n \in CreatedByRun :
             \E i \in DOMAIN rules :
                /\ ~IdleBefore(i)
                /\ transactions[n].user_id = resp.before.rules[i].user_id
                /\ transactions[n].amount = resp.before.rules[i].amount

\* the positions of the transactions the run stored with the owner and the
\* amount of the rule at position i (the rules of a run differ in their amounts)
CreatedFor(i) ==
    {n \in CreatedByRun :
        /\ transactions[n].user_id = resp.before.rules[i].user_id
        /\ transactions[n].amount = resp.before.rules[i].amount}

C29_ErrorIsolation ==
    SchedulerReturned =>
       /\ \A k \in DOMAIN resp.log :
             resp.log[k].outcome = "error" =>
                LET i == resp.queue[k]
                    old == resp.before.rules[i]
                IN /\ CreatedFor(i) = {}
                   /\ rules[i].last_execution = old.last_execution
                   /\ old.next_execution # None => rules[i].next_execution = old.next_execution
                   /\ rules[i].next_execution # None
       /\ \A i \in DOMAIN rules :
             (resp.before.rules[i].active /\ resp.before.rules[i].auto_create) =>
                /\ \E k \in DOMAIN resp.log : resp.queue[k] = i
                /\ resp.before.rules[i].next_execution = None =>
                      /\ rules[i].next_execution # None
                      /\ rules[i].next_execution >= TodayStr
                      /\ rules[i].next_execution % 100 = rules[i].bymonthday

\* rule 1 gets its next_execution committed, rule 2 is due and raises, and the
\* run goes on to rule 3, which gets its next_execution committed
C29_Witness ==
    /\ SchedulerReturned
    /\ resp.queue = <<1, 2, 3>>
    /\ resp.before.rules[1].next_execution = None
    /\ rules[1].next_execution # None
    /\ resp.log[2].outcome = "error"
    /\ resp.before.rules[3].next_execution = None
    /\ rules[3].next_execution = 20240331

C23_StatementAfterPayment ==
    [][(/\ PaymentReturned
        /\ resp'.op = "statement"
        /\ resp'.status_code = 200
        /\ resp'.user_id = resp.user_id
        /\ resp'.card_id = resp.card_id
        /\ resp'.month = resp.month)
       => LET listed == resp'.body.transactions
              real == {k \in DOMAIN listed : ~IsVirtual(listed[k])}
              virtual == {k \in DOMAIN listed : IsVirtual(listed[k])}
              rows == {p \in DOMAIN resp.before :
                          /\ resp.before[p].user_id = resp.user_id
                          /\ resp.before[p].credit_card_id = resp.card_id
                          /\ resp.before[p].date >= resp.start
                          /\ resp.before[p].date < resp.end}
          IN /\ \A k \in real : listed[k].status # "PENDING"
             /\ {listed[k].id : k \in real} = {resp.before[p].id : p \in rows}
             /\ resp'.body.total = SumOver(resp.before, rows) + SumOver(listed, virtual)]_vars

\* a statement lists the purchase of 10 February, stored PENDING, as PAID, next
\* to a virtual item
C23_Witness ==
    /\ StatementReturned
    /\ \E k \in DOMAIN Items :
          /\ ~IsVirtual(Items[k])
          /\ Items[k].date = 20240210
          /\ Items[k].amount = 40
          /\ Items[k].status = "PAID"
    /\ \E k \in DOMAIN Items : IsVirtual(Items[k])

\* ------------------------------------------------------------- the dedup key

\* C24: the virtual item of an active rule R of the card on an occurrence d of
\* the period is left out exactly when a persisted transaction of the period has
\* recurring_rule_id R and date d: a transaction of R on another date, one on d
\* of another rule or of none, whatever its amount, and the virtual item of
\* another rule on d leave it in
C24_DedupKeyIsRuleAndDate ==
    StatementReturned =>
       \A i \in DOMAIN rules :
          (/\ rules[i].user_id = resp.user_id
           /\ rules[i].credit_card_id = resp.card_id
           /\ rules[i].active) =>
             \A d \in OccurrencesIn(rules[i].bymonthday, resp.body.period.start,
                                    resp.body.period.end) :
                (rules[i].end_date = None \/ d <= rules[i].end_date) =>
                   ((\E k \in DOMAIN Items :
                        /\ IsVirtual(Items[k])
                        /\ Items[k].recurring_rule_id = rules[i].id
                        /\ Items[k].date = d)
                    <=> ~\E p \in DOMAIN transactions :
                           /\ InStatement(transactions[p])
                           /\ transactions[p].recurring_rule_id = rules[i].id
                           /\ transactions[p].date = d)

\* rules 1 and 2 both fall on 15 February with the same amount; a transaction of
\* rule 1 dated the 16th and a transaction of no rule, of that amount, dated the
\* 15th are persisted: the statement lists the virtual items of both rules on
\* the 15th
C24_Witness ==
    /\ StatementReturned
    /\ rules[2].bymonthday = 15
    /\ rules[2].amount = 150
    /\ \E p, q \in DOMAIN transactions :
          /\ transactions[p].recurring_rule_id = 1
          /\ transactions[p].date = 20240216
          /\ transactions[q].recurring_rule_id = None
          /\ transactions[q].date = 20240215
          /\ transactions[q].amount = 150
    /\ \A R \in {1, 2} :
          \E k \in DOMAIN Items :
             /\ IsVirtual(Items[k])
             /\ Items[k].recurring_rule_id = R
             /\ Items[k].date = 20240215

\* ------------------------------------------------------------- projection and statement

\* C26: each entry of the projection reports the total and the due date that
\* the statement of the same card and month reports on the same tables
C26_ProjectionEqualsStatement ==
    ProjectionReturned =>
       \A k \in DOMAIN resp.body :
          LET statement == StatementBody(resp.user_id, cards[resp.card_id], resp.body[k].month)
          IN /\ resp.body[k].total = statement.total
             /\ resp.body[k].due_date = statement.due_date

\* ------------------------------------------------------------- the status over the days

\* OPEN before CLOSED before OVERDUE
StatusRank(status) ==
    CASE status = "OPEN" -> 0
      [] status = "CLOSED" -> 1
      [] status = "OVERDUE" -> 2

\* the status by today, the period's end and the due date alone
StatusOn(day, closing_day, due_day, month) ==
    IF day < ExpectedEnd(closing_day, month) THEN "OPEN"
    ELSE IF day <= SafeDateStr(month.year, month.month, due_day) THEN "CLOSED"
    ELSE "OVERDUE"

\* C27: the status a statement reports is the one today, the period's end and
\* the due date give, paid or not, and is not OVERDUE before the period's end;
\* and no step, a day passing or a payment, takes the status of the statement of
\* a month back from OVERDUE to CLOSED or OPEN, or from CLOSED to OPEN
C27_StatusNeverMovesBack ==
    /\ [](StatementReturned =>
            /\ resp.body.status = StatusOn(TodayStr, RequestedCard.closing_day,
                                           RequestedCard.due_day, resp.month)
            /\ TodayStr < resp.body.period.end => resp.body.status # "OVERDUE")
    /\ [][\A m \in OverdueMonths :
             StatusRank(StatementBody(1, cards[1], m).status)
                <= StatusRank(StatementStatus(
                       today',
                       strptime(ExpectedEnd(cards[1].closing_day, m)),
                       strptime(SafeDateStr(m.year, m.month, cards[1].due_day))))]_vars

\* the statement of March of the card closing on the 10th and due on the 20th is
\* OVERDUE on 21 March although its only transaction is paid
C27_Witness ==
    /\ StatementReturned
    /\ RequestedCard.closing_day = 10
    /\ RequestedCard.due_day = 20
    /\ TodayStr = 20240321
    /\ resp.body.status = "OVERDUE"
    /\ \A k \in DOMAIN Items : Items[k].status = "PAID"
    /\ Items # <<>>

====
